---------------------------- MODULE Spec2Model ----------------------------
(***************************************************************************)
(* Optimal Golomb ruler search (wolf75222/OptimalGolombRuler).             *)
(*                                                                         *)
(* Spec       : searchGolombMPI_V3 (src/src/search_mpi_v3.cpp): prefix     *)
(*              generation, static partition, rounds of OpenMP workers     *)
(*              running the iterative bitmap kernel, MPI_Allreduce bound   *)
(*              synchronisation and the final reduction.                   *)
(* SpecNoSync : the same with the reduced bound not folded in.             *)
(* SpecLive   : Spec under weak fairness.                                  *)
(* SpecSeqV2  : searchGolombSequentialV2 (src/unnamed/part_011).           *)
(* SpecCube   : one bound synchronisation of searchGolombMPI_V2 through    *)
(*              HypercubeMPI::allReduceMin (src/include/hypercube.hpp).    *)
(* SpecOmp    : searchGolomb with the recursive kernel, called twice.      *)
(* SpecSingle : searchGolombMPI on one process (src/src/search_mpi.cpp).   *)
(* SpecGen    : prefix depth and prefix generation of searchGolombMPI_V3   *)
(*              on processes of different thread counts.                   *)
(* SpecArgs   : the argument checks of main (src/src/main_mpi.cpp,         *)
(*              src/src/main_openmp_v6.cpp) and of searchGolombMPI_V3.     *)
(* SpecValid  : GolombRuler::isValid (src/include/search_v5.hpp).          *)
(* SpecCount  : Spec with the explored-state counter followed.             *)
(* SpecStale  : Spec with relaxed loads of the bound, which may return any *)
(*              value the bound has held.                                  *)
(* SpecBits   : Spec, and the search under the full bound of 127.          *)
(* SpecDepth  : the prefix-depth functions of the V3, V4 and V5 variants.  *)
(* SpecSeqV4  : searchGolombSequentialV4WithBound (src/unnamed/part_010)   *)
(*              next to searchGolombSequentialV2.                          *)
(* SpecV4     : searchGolombMPI_V4 (src/unnamed/part_006): greedy bound,   *)
(*              single-process search, dynamic master and workers.         *)
(* SpecV4Live : SpecV4 under weak fairness.                                *)
(* SpecMW     : searchGolombMPI on two or more processes, the branch       *)
(*              queue of rank 0 and its workers.                           *)
(* SpecShift  : the two left shifts of a 128-bit bitmap.                   *)
(***************************************************************************)
EXTENDS Integers, Sequences, FiniteSets, TLC

(***************************************************************************)
(* Bounds of the model.                                                    *)
(***************************************************************************)
MaxN == 4
MaxLmax == 6
MaxP == 3
MaxThreads == 2
MaxRound == 2

(***************************************************************************)
(* Program constants.                                                      *)
(***************************************************************************)
SYNC_INTERVAL_V3 == 64
MAX_MARKS_V3 == 24
MAX_LEN_V3 == 127

\* The round size is a compile-time constant of each variant (64 in V2/V3,
\* 8 in the branch-based MPI search).  The model draws it from RoundSizes so
\* that runs of several rounds are reachable with few prefixes.
RoundSizes == (1..MaxRound) \cup {SYNC_INTERVAL_V3}

Min2(a, b) == IF a < b THEN a ELSE b
SetMin(s) == CHOOSE x \in s : \A y \in s : x <= y
SetMax(s) == CHOOSE x \in s : \A y \in s : x >= y

(***************************************************************************)
(* BitSet128_V3: two 64-bit lanes, each lane the set of its one bits.      *)
(***************************************************************************)
Lane == 0..63

BitSet128_V3(l, h) == [lo |-> l, hi |-> h]

EmptyBits == BitSet128_V3({}, {})

\* uint64_t << k and uint64_t >> k for 0 <= k < 64
Shl64(w, k) == {i + k : i \in {j \in w : j + k < 64}}
Shr64(w, k) == {i - k : i \in {j \in w : j >= k}}

BitSet(b, pos) ==
    IF pos < 64 THEN [b EXCEPT !.lo = @ \cup {pos}]
                ELSE [b EXCEPT !.hi = @ \cup {pos - 64}]

BitTest(b, pos) ==
    IF pos < 64 THEN pos \in b.lo ELSE (pos - 64) \in b.hi

\* a shift that keeps nothing when the distance reaches the lane width
ShiftLeft_LowLaneOnly(b, k) ==
    IF k = 0 THEN b
    ELSE IF k >= 64 THEN BitSet128_V3({}, {})
    ELSE BitSet128_V3(Shl64(b.lo, k), Shl64(b.hi, k) \cup Shr64(b.lo, 64 - k))

ShiftLeft(b, k) ==
    IF k = 0 THEN b
    ELSE IF k >= 128 THEN BitSet128_V3({}, {})
    ELSE IF k >= 64 THEN BitSet128_V3({}, Shl64(b.lo, k - 64))
    ELSE BitSet128_V3(Shl64(b.lo, k), Shl64(b.hi, k) \cup Shr64(b.lo, 64 - k))

\* uint64_t(cond) - 1ULL and -uint64_t(cond) of part_014: no bit or every
\* bit of a lane
MinusOne(cond) == IF cond THEN {} ELSE Lane
Negated(cond) == IF cond THEN Lane ELSE {}

\* (x & ~mask) | (y & mask)
Select(x, y, mask) == (x \cap (Lane \ mask)) \cup (y \cap mask)

\* a branchless shift in which nothing passes from the low lane to the high
ShiftLeftB_NoCarry(b, k) ==
    IF k >= 128 THEN BitSet128_V3({}, {})
    ELSE IF k >= 64 THEN BitSet128_V3({}, Shl64(b.lo, k - 64))
    ELSE BitSet128_V3(Shl64(b.lo, k), Shl64(b.hi, k))

\* BitSet128B::operator<< (part_014 lines 65-99), for k >= 0
ShiftLeftB(b, k) ==
    LET zero_mask == MinusOne(k < 128)
        identity_mask == MinusOne(k = 0)
        n_mod == k % 64
        n_inv == 64 - n_mod
        ge64 == Negated(k >= 64)
        new_lo_lt64 == Shl64(b.lo, n_mod)
        carry == IF n_mod = 0 THEN {} ELSE Shr64(b.lo, n_inv)
        new_hi_lt64 == Shl64(b.hi, n_mod) \cup carry
        new_lo_ge64 == {}
        new_hi_ge64 == Shl64(b.lo, n_mod)
        new_lo_raw == Select(new_lo_lt64, new_lo_ge64, ge64)
        new_hi_raw == Select(new_hi_lt64, new_hi_ge64, ge64)
        new_lo == new_lo_raw \cap (Lane \ zero_mask)
        new_hi == new_hi_raw \cap (Lane \ zero_mask)
        final_lo == Select(b.lo, new_lo, identity_mask)
        final_hi == Select(b.hi, new_hi, identity_mask)
    IN  BitSet128_V3(final_lo, final_hi)

BitAnd(a, b) == BitSet128_V3(a.lo \cap b.lo, a.hi \cap b.hi)

BitXor(a, b) ==
    BitSet128_V3((a.lo \cup b.lo) \ (a.lo \cap b.lo),
                 (a.hi \cup b.hi) \ (a.hi \cap b.hi))

\* any() that looks at the high lane only
BitAny_HiOnly(b) == b.hi # {}

BitAny(b) == (b.lo \cup b.hi) # {}

(***************************************************************************)
(* extractMarksMPI_V3: marks in ascending order from reversed_marks.       *)
(***************************************************************************)
RECURSIVE ExtractFrom(_, _, _)
ExtractFrom(reversed_marks, ruler_length, i) ==
    IF i > ruler_length THEN << >>
    ELSE (IF BitTest(reversed_marks, ruler_length - i) THEN <<i>> ELSE << >>)
         \o ExtractFrom(reversed_marks, ruler_length, i + 1)

\* an extraction that leaves out the mark at 0
extractMarks_WithoutZero(reversed_marks, ruler_length) ==
    ExtractFrom(reversed_marks, ruler_length, 1)

extractMarksMPI_V3(reversed_marks, ruler_length) ==
    ExtractFrom(reversed_marks, ruler_length, 0)

(***************************************************************************)
(* generatePrefixesMPI_V3: depth-first enumeration of the prefixes of      *)
(* target_depth marks, pruned against the fixed maxLen.                    *)
(***************************************************************************)
WorkItemMPI_V3(rm, ud, mc, len) ==
    [reversed_marks |-> rm, used_dist |-> ud, marks_count |-> mc,
     ruler_length |-> len]

\* a candidate limit that is one too small
GenMaxPos_OneShort(maxLen, remaining) ==
    maxLen - (((remaining - 1) * remaining) \div 2) - 2

\* max_remaining and max_pos of the generation
GenMaxPos(maxLen, remaining) ==
    maxLen - (((remaining - 1) * remaining) \div 2) - 1

RECURSIVE generatePrefixesMPI_V3(_, _, _, _, _, _, _)
RECURSIVE GenerateFrom(_, _, _, _, _, _, _, _, _)

GenerateFrom(pos, max_pos, reversed_marks, used_dist, marks_count, ruler_length, target_depth, target_marks, maxLen) ==
    IF pos > max_pos THEN << >>
    ELSE IF pos = max_pos
    THEN LET offset == pos - ruler_length
             new_dist == ShiftLeft(reversed_marks, offset)
             new_reversed == BitSet(ShiftLeft(reversed_marks, offset), 0)
             new_used == BitXor(used_dist, new_dist)
         IN  IF BitAny(BitAnd(new_dist, used_dist)) THEN << >>
             ELSE generatePrefixesMPI_V3(new_reversed, new_used,
                      marks_count + 1, pos, target_depth, target_marks,
                      maxLen)
    \* the iterations pos .. max_pos of the for loop, in order; the range is
    \* halved to keep the evaluation shallow
    ELSE LET mid == (pos + max_pos) \div 2
         IN  GenerateFrom(pos, mid, reversed_marks, used_dist, marks_count,
                 ruler_length, target_depth, target_marks, maxLen)
             \o GenerateFrom(mid + 1, max_pos, reversed_marks, used_dist,
                    marks_count, ruler_length, target_depth, target_marks,
                    maxLen)

generatePrefixesMPI_V3(reversed_marks, used_dist, marks_count, ruler_length, target_depth, target_marks, maxLen) ==
    IF marks_count = target_depth
    THEN << WorkItemMPI_V3(reversed_marks, used_dist, marks_count,
                           ruler_length) >>
    ELSE LET remaining == target_marks - marks_count
             min_additional == (remaining * (remaining + 1)) \div 2
             min_pos == ruler_length + 1
             max_pos == GenMaxPos(maxLen, remaining)
         IN  IF ruler_length + min_additional >= maxLen THEN << >>
             ELSE GenerateFrom(min_pos, max_pos, reversed_marks, used_dist,
                      marks_count, ruler_length, target_depth, target_marks,
                      maxLen)

(***************************************************************************)
(* computePrefixDepthMPI_V3                                                *)
(***************************************************************************)
\* a depth that follows the thread count of the process for every order
computePrefixDepth_ByThreads(nn, numProcesses, threadsPerProcess) ==
    IF threadsPerProcess > 1 /\ nn > 3 THEN 3 ELSE 2

computePrefixDepthMPI_V3(nn, numProcesses, threadsPerProcess) ==
    LET totalWorkers == numProcesses * threadsPerProcess
        depth0 == IF totalWorkers > 64 THEN 6 ELSE 5
        depth1 == IF depth0 >= nn - 2 THEN nn - 3 ELSE depth0
    IN  IF nn <= 6 THEN 2
        ELSE IF nn <= 8 THEN 3
        ELSE IF nn <= 10 THEN 3
        ELSE IF nn <= 12 THEN 4
        ELSE IF nn <= 14 THEN 4
        ELSE IF nn <= 16 THEN 5
        ELSE IF depth1 < 2 THEN 2 ELSE depth1


(***************************************************************************)
(* State of one searchGolombMPI_V3 call on `size` processes of             *)
(* `numThreads` OpenMP threads each.                                       *)
(***************************************************************************)
VARIABLES
    n,              \* order of the ruler (argument)
    maxLenArg,      \* maxLen as passed by the caller (L_max)
    size,           \* MPI_Comm_size
    numThreads,     \* omp_get_max_threads
    syncInterval,   \* round size S (SYNC_INTERVAL_V3)
    boundSync,      \* FALSE: the all-reduced bound is not folded in
    pc,             \* per process: position in searchGolombMPI_V3
    globalBestLen,  \* per process: std::atomic<int> globalBestLen
    localBestLen,   \* per process
    localBestMarks, \* per process (localBestNumMarks is its length)
    myPrefixes,     \* per process
    prefixIndex,    \* per process
    round,          \* per process
    endIdx,         \* per process: end of the current round
    nextIdx,        \* per process: next iteration of the omp for
    maxRounds,      \* per process
    coll,           \* per process: collective call in progress
    ret,            \* per process: what the last collective returned
    globalMinLen,   \* per process
    bestNumMarks,   \* per process
    best,           \* per process: the GolombRuler returned
    thr,            \* per process, per thread: worker state
    handled,        \* per process: the iterations handed to threads so far
    generated,      \* per process: the vector allPrefixes the process built
    explored,       \* exploredCountMPI_V3, threadExplored and the frame visits
    held,           \* per process: the values globalBestLen has held so far
    seq,            \* state of one searchGolombSequentialV2 call
    cube,           \* state of one hypercube bound synchronisation
    omp,            \* state of the caller of searchGolomb and of its calls
    mpi,            \* state of one searchGolombMPI call on one process
    gen,            \* prefix generation on processes of unequal thread counts
    req,            \* a request on its way from the caller into the search
    chk,            \* one call of GolombRuler::isValid
    dep,            \* one call of a prefix-depth function
    v4,             \* state of one searchGolombMPI_V4 call
    mw,             \* state of one searchGolombMPI call on two or more processes
    sh              \* state of one call of each operator<< on a 128-bit bitmap

inputs == <<n, maxLenArg, size, numThreads, syncInterval, boundSync>>
procVars == <<pc, globalBestLen, localBestLen, localBestMarks, myPrefixes,
              prefixIndex, round, endIdx, nextIdx, maxRounds, coll, ret,
              globalMinLen, bestNumMarks, best>>
\* the state of the other programs of the repository
others == <<seq, cube, omp, mpi, gen, req, chk, dep, v4, mw, sh>>
vars == <<inputs, procVars, thr, handled, generated, explored, held, others>>

Procs == 0..(size - 1)
Threads == 0..(numThreads - 1)

\* maxLen after the clamp of lines 308-310
maxLen == IF maxLenArg > MAX_LEN_V3 THEN MAX_LEN_V3 ELSE maxLenArg

NoCall == [kind |-> "none", val |-> 0, marks |-> << >>, root |-> 0, cnt |-> 0]
Call(k, v) == [kind |-> k, val |-> v, marks |-> << >>, root |-> 0, cnt |-> 1]
BcastCall(v, m, r, c) ==
    [kind |-> "bcast", val |-> v, marks |-> m, root |-> r, cnt |-> c]

\* what a completed collective left in the receive buffer: an int, or the
\* marks broadcast by `root`
Received(v, m, r) == [val |-> v, marks |-> m, root |-> r]

Blocked(p) == coll[p].kind # "none"

\* Processes share no memory: the steps a process takes between two
\* collectives commute with the steps of every other process, so they are
\* explored in rank order only.
Scheduled(p) ==
    /\ ~Blocked(p)
    /\ \A q \in Procs : q < p => (Blocked(q) \/ pc[q] = "done")

StackFrameMPI_V3(rm, ud, mc, len, nc) ==
    [reversed_marks |-> rm, used_dist |-> ud, marks_count |-> mc,
     ruler_length |-> len, next_candidate |-> nc]

IdleThread ==
    [pcT |-> "idle", idx |-> 0, stack |-> << >>, pos |-> 0, max_pos |-> 0,
     expected |-> 0, bestLen |-> 0, bestMarks |-> << >>]

GolombRuler(marks) ==
    [marks |-> marks,
     length |-> IF marks = << >> THEN 0 ELSE marks[Len(marks)]]

\* a program that is not running
Off == [pcS |-> "off"]

\* no process has entered searchGolombMPI_V3
InitProcs ==
    /\ pc = [p \in Procs |-> "entry"]
    /\ globalBestLen = [p \in Procs |-> 0]
    /\ localBestLen = [p \in Procs |-> 0]
    /\ localBestMarks = [p \in Procs |-> << >>]
    /\ myPrefixes = [p \in Procs |-> << >>]
    /\ prefixIndex = [p \in Procs |-> 0]
    /\ round = [p \in Procs |-> 0]
    /\ endIdx = [p \in Procs |-> 0]
    /\ nextIdx = [p \in Procs |-> 0]
    /\ maxRounds = [p \in Procs |-> 0]
    /\ coll = [p \in Procs |-> NoCall]
    /\ ret = [p \in Procs |-> Received(0, << >>, 0)]
    /\ globalMinLen = [p \in Procs |-> 0]
    /\ bestNumMarks = [p \in Procs |-> 0]
    /\ best = [p \in Procs |-> GolombRuler(<< >>)]
    /\ thr = [p \in Procs |-> [t \in Threads |-> IdleThread]]
    /\ handled = [p \in Procs |-> << >>]
    /\ generated = [p \in Procs |-> << >>]

InitSearch(sync) ==
    /\ n \in 2..MaxN
    /\ maxLenArg \in 0..MaxLmax
    /\ size \in 1..MaxP
    /\ numThreads \in 1..MaxThreads
    /\ syncInterval \in RoundSizes
    /\ boundSync = sync
    /\ InitProcs
    /\ sh = Off
    /\ mw = Off
    /\ v4 = Off
    /\ dep = Off
    /\ seq = Off
    /\ cube = Off
    /\ omp = Off
    /\ mpi = Off
    /\ gen = Off
    /\ req = Off
    /\ chk = Off
    /\ explored = Off
    /\ held = Off

Init == InitSearch(TRUE)

\* the same search with the bound synchronisation switched off
InitNoSync == InitSearch(FALSE)

(***************************************************************************)
(* Phases 1 and 2: every rank generates the prefix list and keeps the      *)
(* prefixes i with i % size = rank.                                        *)
(***************************************************************************)
allPrefixes ==
    generatePrefixesMPI_V3(BitSet(EmptyBits, 0), EmptyBits, 1, 0,
        computePrefixDepthMPI_V3(n, size, numThreads), n, maxLen + 1)

\* a selection that keeps every prefix on every rank
SelectMine_All(all, i, rank) == all

\* the iterations i .. last of the loop of lines 351-355, in order; the
\* range is halved to keep the evaluation shallow
RECURSIVE SelectRange(_, _, _, _)
SelectRange(all, i, last, rank) ==
    IF i > last THEN << >>
    ELSE IF i = last
    THEN (IF i % size = rank THEN << all[i + 1] >> ELSE << >>)
    ELSE LET mid == (i + last) \div 2
         IN  SelectRange(all, i, mid, rank) \o SelectRange(all, mid + 1, last, rank)

SelectMine(all, i, rank) == SelectRange(all, i, Len(all) - 1, rank)

\* The explored-state counter.  `explored` is Off where the counter plays no
\* part; where it is followed it holds exploredCountMPI_V3 of each process,
\* threadExplored of each thread, and the number of frame visits (iterations
\* of the while loop of the kernel) each process has performed in this call.
Counting == explored.pcS = "on"

\* a call that leaves the counter of the earlier call in place
ResetExplored_Keep(c, p) == c

\* line 312: exploredCountMPI_V3.store(0)
ResetExplored(c, p) == [c EXCEPT !.exploredCount[p] = 0]

\* line 375: long long threadExplored = 0, in every thread of the region
NewThreadExplored(c, p) == [c EXCEPT !.threadExplored[p] = [t \in Threads |-> 0]]

\* line 192: localExplored++
CountVisit(c, p, t) == [c EXCEPT !.threadExplored[p][t] = @ + 1, !.visits[p] = @ + 1]

\* line 401: exploredCountMPI_V3.fetch_add(threadExplored)
AddThreadExplored(c, p, t) == [c EXCEPT !.exploredCount[p] = @ + c.threadExplored[p][t]]

\* The values of the bound.  `held` is Off where every load of
\* globalBestLen returns its current value; where relaxed loads are followed
\* it holds, per process, the values globalBestLen has held in this call.
Relaxed == held.pcS = "on"

\* the bound of process p takes the value v
Holds(p, v) == IF Relaxed THEN [held EXCEPT !.values[p] = @ \cup {v}] ELSE held

\* a load that may return values the bound has never held
RelaxedLoad_AnyValue(p) == 0..(maxLen + 1)

\* lines 196 and 219: globalBestLen.load(std::memory_order_relaxed) returns
\* the current value or, where relaxed loads are followed, any value held
\* earlier in the call
RelaxedLoad(p) == IF Relaxed THEN held.values[p] ELSE {globalBestLen[p]}

\* a load of process p returned v; `stale` remembers that some load of the
\* process returned a value that was no longer current
Loaded(p, v) ==
    IF Relaxed /\ v # globalBestLen[p] THEN [held EXCEPT !.stale[p] = TRUE]
    ELSE held

Entry(p) ==
    /\ pc[p] = "entry"
    /\ Scheduled(p)
    /\ held' = IF Relaxed THEN [held EXCEPT !.values[p] = {maxLen + 1}] ELSE held
    /\ explored' = IF Counting THEN ResetExplored(explored, p) ELSE explored
    /\ globalBestLen' = [globalBestLen EXCEPT ![p] = maxLen + 1]
    /\ localBestLen' = [localBestLen EXCEPT ![p] = maxLen + 1]
    /\ localBestMarks' = [localBestMarks EXCEPT ![p] = << >>]
    /\ generated' = [generated EXCEPT ![p] = allPrefixes]
    /\ myPrefixes' = [myPrefixes EXCEPT ![p] = SelectMine(allPrefixes, 0, p)]
    /\ prefixIndex' = [prefixIndex EXCEPT ![p] = 0]
    /\ round' = [round EXCEPT ![p] = 0]
    /\ pc' = [pc EXCEPT ![p] = "loop"]
    /\ UNCHANGED <<inputs, others, handled, endIdx, nextIdx, maxRounds, coll, ret,
                   globalMinLen, bestNumMarks, best, thr>>

myNumPrefixes(p) == Len(myPrefixes[p])

(***************************************************************************)
(* Phase 3: one round = one omp parallel region over                       *)
(* myPrefixes[startIdx .. endIdx-1] (0-based), schedule(dynamic, 1).       *)
(***************************************************************************)
StartRound(p) ==
    /\ pc[p] = "loop"
    /\ Scheduled(p)
    /\ prefixIndex[p] < myNumPrefixes(p)
    /\ endIdx' = [endIdx EXCEPT ![p] =
           prefixIndex[p] + Min2(syncInterval, myNumPrefixes(p) - prefixIndex[p])]
    /\ nextIdx' = [nextIdx EXCEPT ![p] = prefixIndex[p]]
    /\ thr' = [thr EXCEPT ![p] = [t \in Threads |->
           [IdleThread EXCEPT !.pcT = "fetch", !.bestLen = maxLen + 1]]]
    /\ pc' = [pc EXCEPT ![p] = "parallel"]
    /\ explored' = IF Counting THEN NewThreadExplored(explored, p) ELSE explored
    /\ UNCHANGED <<inputs, others, handled, generated, held, globalBestLen, localBestLen, localBestMarks,
                   myPrefixes, prefixIndex, round, maxRounds, coll, ret,
                   globalMinLen, bestNumMarks, best>>

ThreadStep(p, t, new) == thr' = [thr EXCEPT ![p][t] = new]

\* The threads of a region run the same code on the same shared state: of
\* several threads in the same local state, the steps of the first stand
\* for the steps of the others.
Running(p, t, label) ==
    /\ pc[p] = "parallel"
    /\ Scheduled(p)
    /\ thr[p][t].pcT = label
    /\ \A u \in Threads : u < t => thr[p][u] # thr[p][t]

\* one iteration of the omp for handed to a thread: the prefix and the
\* round (0-based)
Handling(prefix, r) == [prefix |-> prefix, round |-> r]

\* omp for schedule(dynamic, 1): take the next iteration, or leave the loop
Fetch(p, t) ==
    /\ Running(p, t, "fetch")
    /\ IF nextIdx[p] < endIdx[p]
       THEN /\ nextIdx' = [nextIdx EXCEPT ![p] = @ + 1]
            /\ ThreadStep(p, t, [thr[p][t] EXCEPT !.idx = nextIdx[p],
                                                  !.pcT = "check"])
            /\ handled' = [handled EXCEPT ![p] = Append(@,
                   Handling(myPrefixes[p][nextIdx[p] + 1], round[p]))]
            /\ explored' = explored
       ELSE /\ nextIdx' = nextIdx
            /\ ThreadStep(p, t, [thr[p][t] EXCEPT !.pcT = "merge"])
            /\ handled' = handled
            /\ explored' = IF Counting THEN AddThreadExplored(explored, p, t)
                                        ELSE explored
    /\ UNCHANGED <<inputs, others, generated, held, pc, globalBestLen, localBestLen, localBestMarks,
                   myPrefixes, prefixIndex, round, endIdx, maxRounds, coll,
                   ret, globalMinLen, bestNumMarks, best>>

\* lines 381-396: prune the prefix against the bound or seed frame 0
CheckPrefix(p, t) ==
    /\ Running(p, t, "check")
    /\ LET prefix == myPrefixes[p][thr[p][t].idx + 1]
           currentGlobal == globalBestLen[p]
           remaining == n - prefix.marks_count
           minAdditional == (remaining * (remaining + 1)) \div 2
           frame0 == StackFrameMPI_V3(prefix.reversed_marks, prefix.used_dist,
                         prefix.marks_count, prefix.ruler_length, 0)
       IN  IF prefix.ruler_length + minAdditional >= currentGlobal
           THEN ThreadStep(p, t, [thr[p][t] EXCEPT !.pcT = "fetch"])
           ELSE ThreadStep(p, t, [thr[p][t] EXCEPT !.stack = <<frame0>>,
                                                   !.pcT = "visit"])
    /\ UNCHANGED <<inputs, others, handled, generated, explored, held, procVars>>

(***************************************************************************)
(* backtrackIterativeMPI_V3.  One step per access to globalBestLen.        *)
(***************************************************************************)
\* stackTop--, leaving the kernel when the stack becomes empty
\* line 252: where the frame resumes once the child pushed at pos returns
ResumeAt_Same(pos) == pos

ResumeAt(pos) == pos + 1

PopFrame(th) ==
    LET s == SubSeq(th.stack, 1, Len(th.stack) - 1)
    IN  [th EXCEPT !.stack = s,
                   !.pcT = IF s = << >> THEN "fetch" ELSE "visit"]

\* ++pos of the for loop; the loop ends without a child when pos > max_pos
NextCandidate(th) ==
    IF th.pos + 1 > th.max_pos THEN PopFrame(th)
    ELSE [th EXCEPT !.pos = th.pos + 1, !.pcT = "cand"]

\* an upper candidate limit that is one too small
MaxPos_OneShort(currentGlobalBest, r) ==
    currentGlobalBest - (((r - 1) * r) \div 2) - 2

\* lines 208-209: max_pos
MaxPos(currentGlobalBest, r) ==
    currentGlobalBest - (((r - 1) * r) \div 2) - 1

\* lines 191-216: top of the while loop
Visit(p, t) ==
    /\ Running(p, t, "visit")
    /\ \E currentGlobalBest \in RelaxedLoad(p) :
       held' = Loaded(p, currentGlobalBest) /\
       LET th == thr[p][t]
           frame == th.stack[Len(th.stack)]
           r == n - frame.marks_count
           minAdditionalLength == (r * (r + 1)) \div 2
           min_pos == frame.ruler_length + 1
           max_pos == MaxPos(currentGlobalBest, r)
           startNext == IF frame.next_candidate = 0 THEN min_pos
                        ELSE frame.next_candidate
       IN  IF frame.ruler_length + minAdditionalLength >= currentGlobalBest
           THEN ThreadStep(p, t, PopFrame(th))
           ELSE IF startNext > max_pos
           THEN ThreadStep(p, t, PopFrame(th))
           ELSE ThreadStep(p, t, [th EXCEPT !.pos = startNext,
                                           !.max_pos = max_pos,
                                           !.pcT = "cand"])
    /\ explored' = IF Counting THEN CountVisit(explored, p, t) ELSE explored
    /\ UNCHANGED <<inputs, others, handled, generated, procVars>>

\* lines 218-270: one iteration of the for loop
Candidate(p, t) ==
    /\ Running(p, t, "cand")
    /\ \E newGlobalBest \in RelaxedLoad(p) :
       held' = Loaded(p, newGlobalBest) /\
       LET th == thr[p][t]
           top == Len(th.stack)
           frame == th.stack[top]
           pos == th.pos
           offset == pos - frame.ruler_length
           new_dist == ShiftLeft(frame.reversed_marks, offset)
           newMarksCount == frame.marks_count + 1
           final_marks == BitSet(ShiftLeft(frame.reversed_marks, offset), 0)
           newFrame == StackFrameMPI_V3(
                           BitSet(ShiftLeft(frame.reversed_marks, offset), 0),
                           BitXor(frame.used_dist, new_dist),
                           newMarksCount, pos, 0)
       IN  IF pos >= newGlobalBest
           THEN ThreadStep(p, t, PopFrame(th))
           ELSE IF BitAny(BitAnd(new_dist, frame.used_dist))
           THEN ThreadStep(p, t, NextCandidate(th))
           ELSE IF newMarksCount = n
           THEN IF pos < th.bestLen
                THEN ThreadStep(p, t, [th EXCEPT
                         !.bestLen = pos,
                         !.bestMarks = extractMarksMPI_V3(final_marks, pos),
                         !.pcT = "casload"])
                ELSE ThreadStep(p, t, NextCandidate(th))
           ELSE ThreadStep(p, t, [th EXCEPT
                    !.stack = Append(
                        [th.stack EXCEPT ![top].next_candidate = ResumeAt(pos)],
                        newFrame),
                    !.pcT = "visit"])
    /\ UNCHANGED <<inputs, others, handled, generated, explored, procVars>>

\* line 246: expected = globalBestLen.load()
CasLoad(p, t) ==
    /\ Running(p, t, "casload")
    /\ LET th == thr[p][t]
           expected == globalBestLen[p]
       IN  IF th.pos < expected
           THEN ThreadStep(p, t, [th EXCEPT !.expected = expected,
                                           !.pcT = "cas"])
           ELSE ThreadStep(p, t, NextCandidate(th))
    /\ UNCHANGED <<inputs, others, handled, generated, explored, held, procVars>>

\* lines 247-250: one compare_exchange_weak(expected, solutionLen)
CasStore(p, t) ==
    /\ Running(p, t, "cas")
    /\ LET th == thr[p][t]
       IN  IF globalBestLen[p] = th.expected
           THEN /\ globalBestLen' = [globalBestLen EXCEPT ![p] = th.pos]
                /\ held' = Holds(p, th.pos)
                /\ ThreadStep(p, t, NextCandidate(th))
           ELSE /\ globalBestLen' = globalBestLen
                /\ held' = held
                /\ IF th.pos < globalBestLen[p]
                   THEN ThreadStep(p, t, [th EXCEPT
                            !.expected = globalBestLen[p]])
                   ELSE ThreadStep(p, t, NextCandidate(th))
    /\ UNCHANGED <<inputs, others, handled, generated, explored, pc, localBestLen, localBestMarks, myPrefixes,
                   prefixIndex, round, endIdx, nextIdx, maxRounds, coll, ret,
                   globalMinLen, bestNumMarks, best>>

\* a merge that takes every thread's best without comparing lengths
MergeBetter_NoCompare(p, th) == Len(th.bestMarks) > 0

\* lines 403 and 406: the thread's best replaces the process's best
\* a merge that also takes a ruler of the same length
MergeBetter_OrEqual(p, th) ==
    Len(th.bestMarks) > 0 /\ th.bestLen <= localBestLen[p]

MergeBetter(p, th) ==
    Len(th.bestMarks) > 0 /\ th.bestLen < localBestLen[p]

\* lines 403-414: omp critical(merge_best_mpi_v3)
Merge(p, t) ==
    /\ Running(p, t, "merge")
    /\ LET th == thr[p][t]
           better == MergeBetter(p, th)
       IN  /\ localBestLen' = [localBestLen EXCEPT ![p] =
                  IF better THEN th.bestLen ELSE @]
           /\ localBestMarks' = [localBestMarks EXCEPT ![p] =
                  IF better THEN th.bestMarks ELSE @]
           /\ ThreadStep(p, t, [th EXCEPT !.pcT = "joined"])
    /\ UNCHANGED <<inputs, others, handled, generated, explored, held, pc, globalBestLen, myPrefixes, prefixIndex, round,
                   endIdx, nextIdx, maxRounds, coll, ret, globalMinLen,
                   bestNumMarks, best>>

\* CAS fold of lines 430-434 / 447-451 (no worker runs at that point)
FoldBound(p, globalMin) ==
    IF boundSync /\ globalMin < globalBestLen[p]
    THEN [globalBestLen EXCEPT ![p] = globalMin]
    ELSE globalBestLen

\* lines 415-428: the parallel region ends, MPI_Allreduce(MIN) of the bound
EndRound(p) ==
    /\ pc[p] = "parallel"
    /\ Scheduled(p)
    /\ \A t \in Threads : thr[p][t].pcT = "joined"
    /\ prefixIndex' = [prefixIndex EXCEPT ![p] = endIdx[p]]
    /\ round' = [round EXCEPT ![p] = @ + 1]
    /\ coll' = [coll EXCEPT ![p] = Call("min", globalBestLen[p])]
    /\ pc' = [pc EXCEPT ![p] = "fold"]
    /\ thr' = [thr EXCEPT ![p] = [t \in Threads |-> IdleThread]]
    /\ UNCHANGED <<inputs, others, handled, generated, explored, held, globalBestLen, localBestLen, localBestMarks,
                   myPrefixes, endIdx, nextIdx, maxRounds, ret, globalMinLen,
                   bestNumMarks, best>>

\* lines 430-435: fold the reduced bound, back to the loop test
FoldRound(p) ==
    /\ pc[p] = "fold"
    /\ Scheduled(p)
    /\ globalBestLen' = FoldBound(p, ret[p].val)
    /\ held' = Holds(p, FoldBound(p, ret[p].val)[p])
    /\ pc' = [pc EXCEPT ![p] = "loop"]
    /\ UNCHANGED <<inputs, others, handled, generated, explored, localBestLen, localBestMarks, myPrefixes,
                   prefixIndex, round, endIdx, nextIdx, maxRounds, coll, ret,
                   globalMinLen, bestNumMarks, best, thr>>

\* lines 438-439: MPI_Allreduce(MAX) of myNumPrefixes, after the own rounds
AllreduceMaxPrefixes(p) ==
    /\ pc[p] = "loop"
    /\ Scheduled(p)
    /\ prefixIndex[p] >= myNumPrefixes(p)
    /\ coll' = [coll EXCEPT ![p] = Call("max", myNumPrefixes(p))]
    /\ pc' = [pc EXCEPT ![p] = "maxRounds"]
    /\ UNCHANGED <<inputs, others, handled, generated, explored, held, globalBestLen, localBestLen, localBestMarks,
                   myPrefixes, prefixIndex, round, endIdx, nextIdx, maxRounds,
                   ret, globalMinLen, bestNumMarks, best, thr>>

\* line 440
ComputeMaxRounds(p) ==
    /\ pc[p] = "maxRounds"
    /\ Scheduled(p)
    /\ maxRounds' = [maxRounds EXCEPT ![p] =
           (ret[p].val + syncInterval - 1) \div syncInterval]
    /\ pc' = [pc EXCEPT ![p] = "residual"]
    /\ UNCHANGED <<inputs, others, handled, generated, explored, held, globalBestLen, localBestLen, localBestMarks,
                   myPrefixes, prefixIndex, round, endIdx, nextIdx, coll, ret,
                   globalMinLen, bestNumMarks, best, thr>>

\* lines 442-445: a round without prefixes of its own
ResidualRound(p) ==
    /\ pc[p] = "residual"
    /\ Scheduled(p)
    /\ round[p] < maxRounds[p]
    /\ coll' = [coll EXCEPT ![p] = Call("min", globalBestLen[p])]
    /\ pc' = [pc EXCEPT ![p] = "foldResidual"]
    /\ UNCHANGED <<inputs, others, handled, generated, explored, held, globalBestLen, localBestLen, localBestMarks,
                   myPrefixes, prefixIndex, round, endIdx, nextIdx, maxRounds,
                   ret, globalMinLen, bestNumMarks, best, thr>>

\* lines 447-453
FoldResidual(p) ==
    /\ pc[p] = "foldResidual"
    /\ Scheduled(p)
    /\ globalBestLen' = FoldBound(p, ret[p].val)
    /\ held' = Holds(p, FoldBound(p, ret[p].val)[p])
    /\ round' = [round EXCEPT ![p] = @ + 1]
    /\ pc' = [pc EXCEPT ![p] = "residual"]
    /\ UNCHANGED <<inputs, others, handled, generated, explored, localBestLen, localBestMarks, myPrefixes,
                   prefixIndex, endIdx, nextIdx, maxRounds, coll, ret,
                   globalMinLen, bestNumMarks, best, thr>>

(***************************************************************************)
(* Final reduction, lines 458-489.                                         *)
(***************************************************************************)
Barrier(p) ==
    /\ pc[p] = "residual"
    /\ Scheduled(p)
    /\ round[p] >= maxRounds[p]
    /\ coll' = [coll EXCEPT ![p] = Call("barrier", 0)]
    /\ pc' = [pc EXCEPT ![p] = "reduceLen"]
    /\ UNCHANGED <<inputs, others, handled, generated, explored, held, globalBestLen, localBestLen, localBestMarks,
                   myPrefixes, prefixIndex, round, endIdx, nextIdx, maxRounds,
                   ret, globalMinLen, bestNumMarks, best, thr>>

\* line 461
ReduceLen(p) ==
    /\ pc[p] = "reduceLen"
    /\ Scheduled(p)
    /\ coll' = [coll EXCEPT ![p] = Call("min", localBestLen[p])]
    /\ pc' = [pc EXCEPT ![p] = "reduceWinner"]
    /\ UNCHANGED <<inputs, others, handled, generated, explored, held, globalBestLen, localBestLen, localBestMarks,
                   myPrefixes, prefixIndex, round, endIdx, nextIdx, maxRounds,
                   ret, globalMinLen, bestNumMarks, best, thr>>

\* a publication that does not look at the marks held
hasWinner_IgnoreMarks(p, minLen) ==
    IF localBestLen[p] = minLen THEN p ELSE size

hasWinner(p, minLen) ==
    IF localBestLen[p] = minLen /\ Len(localBestMarks[p]) > 0 THEN p ELSE size

\* lines 463-465
ReduceWinner(p) ==
    /\ pc[p] = "reduceWinner"
    /\ Scheduled(p)
    /\ globalMinLen' = [globalMinLen EXCEPT ![p] = ret[p].val]
    /\ coll' = [coll EXCEPT ![p] = Call("min", hasWinner(p, ret[p].val))]
    /\ pc' = [pc EXCEPT ![p] = "winner"]
    /\ UNCHANGED <<inputs, others, handled, generated, explored, held, globalBestLen, localBestLen, localBestMarks,
                   myPrefixes, prefixIndex, round, endIdx, nextIdx, maxRounds,
                   ret, bestNumMarks, best, thr>>

\* lines 467-479 with a winner: MPI_Bcast of bestNumMarks from globalWinner
BcastNumMarks(p) ==
    /\ pc[p] = "winner"
    /\ Scheduled(p)
    /\ ret[p].val < size
    /\ coll' = [coll EXCEPT ![p] = BcastCall(
           IF p = ret[p].val THEN Len(localBestMarks[p]) ELSE 0, << >>,
           ret[p].val, 1)]
    /\ pc' = [pc EXCEPT ![p] = "bcastMarks"]
    /\ UNCHANGED <<inputs, others, handled, generated, explored, held, globalBestLen, localBestLen, localBestMarks,
                   myPrefixes, prefixIndex, round, endIdx, nextIdx, maxRounds,
                   ret, globalMinLen, bestNumMarks, best, thr>>

\* line 480: MPI_Bcast of bestMarks[0 .. bestNumMarks)
BcastMarks(p) ==
    /\ pc[p] = "bcastMarks"
    /\ Scheduled(p)
    /\ bestNumMarks' = [bestNumMarks EXCEPT ![p] = ret[p].val]
    /\ coll' = [coll EXCEPT ![p] = BcastCall(0,
           IF p = ret[p].root THEN localBestMarks[p] ELSE << >>,
           ret[p].root, ret[p].val)]
    /\ pc' = [pc EXCEPT ![p] = "assign"]
    /\ UNCHANGED <<inputs, others, handled, generated, explored, held, globalBestLen, localBestLen, localBestMarks,
                   myPrefixes, prefixIndex, round, endIdx, nextIdx, maxRounds,
                   ret, globalMinLen, best, thr>>

\* lines 483-488 taking the process's own marks, not the broadcast ones
Assign_OwnMarks(p) ==
    /\ pc[p] = "assign"
    /\ Scheduled(p)
    /\ best' = [best EXCEPT ![p] = GolombRuler(localBestMarks[p])]
    /\ pc' = [pc EXCEPT ![p] = "done"]
    /\ UNCHANGED <<inputs, others, handled, generated, explored, held, globalBestLen, localBestLen, localBestMarks,
                   myPrefixes, prefixIndex, round, endIdx, nextIdx, maxRounds,
                   coll, ret, globalMinLen, bestNumMarks, thr>>

\* lines 483-488 after the broadcasts
Assign(p) ==
    /\ pc[p] = "assign"
    /\ Scheduled(p)
    /\ best' = [best EXCEPT ![p] =
           GolombRuler(IF bestNumMarks[p] > 0 THEN ret[p].marks ELSE << >>)]
    /\ pc' = [pc EXCEPT ![p] = "done"]
    /\ UNCHANGED <<inputs, others, handled, generated, explored, held, globalBestLen, localBestLen, localBestMarks,
                   myPrefixes, prefixIndex, round, endIdx, nextIdx, maxRounds,
                   coll, ret, globalMinLen, bestNumMarks, thr>>

\* lines 471, 483-488 without a winner: bestNumMarks stays 0
AssignEmpty(p) ==
    /\ pc[p] = "winner"
    /\ Scheduled(p)
    /\ ret[p].val >= size
    /\ best' = [best EXCEPT ![p] = GolombRuler(<< >>)]
    /\ pc' = [pc EXCEPT ![p] = "done"]
    /\ UNCHANGED <<inputs, others, handled, generated, explored, held, globalBestLen, localBestLen, localBestMarks,
                   myPrefixes, prefixIndex, round, endIdx, nextIdx, maxRounds,
                   coll, ret, globalMinLen, bestNumMarks, thr>>

(***************************************************************************)
(* The message-passing runtime.  The k-th collective calls of all          *)
(* processes are matched with each other.  A collective completes once     *)
(* every process is inside its call.                                       *)
(***************************************************************************)
Kinds == {coll[p].kind : p \in Procs}
Contributed == {coll[p].val : p \in Procs}

AllCalling == \A p \in Procs : Blocked(p)

\* every process issued the same reduction
CompleteReduce ==
    /\ AllCalling
    /\ Kinds \in {{"min"}, {"max"}}
    /\ ret' = [p \in Procs |-> Received(
           IF Kinds = {"min"} THEN SetMin(Contributed)
                              ELSE SetMax(Contributed), << >>, 0)]
    /\ coll' = [p \in Procs |-> NoCall]
    /\ UNCHANGED <<inputs, others, handled, generated, explored, held, pc, globalBestLen, localBestLen, localBestMarks,
                   myPrefixes, prefixIndex, round, endIdx, nextIdx, maxRounds,
                   globalMinLen, bestNumMarks, best, thr>>

\* MPI_Allreduce(MIN) of some processes matched with MPI_Allreduce(MAX) of
\* others: erroneous in MPI, the result is undefined.  Both calls have the
\* same signature and complete; each caller's buffer holds some combination
\* by min and max of the contributions, that is, one of the contributions.
CompleteMismatchedReduce ==
    /\ AllCalling
    /\ Kinds = {"min", "max"}
    /\ ret' \in [Procs -> {Received(v, << >>, 0) : v \in Contributed}]
    /\ coll' = [p \in Procs |-> NoCall]
    /\ UNCHANGED <<inputs, others, handled, generated, explored, held, pc, globalBestLen, localBestLen, localBestMarks,
                   myPrefixes, prefixIndex, round, endIdx, nextIdx, maxRounds,
                   globalMinLen, bestNumMarks, best, thr>>

CompleteBarrier ==
    /\ AllCalling
    /\ Kinds = {"barrier"}
    /\ coll' = [p \in Procs |-> NoCall]
    /\ UNCHANGED <<inputs, others, handled, generated, explored, held, pc, globalBestLen, localBestLen, localBestMarks,
                   myPrefixes, prefixIndex, round, endIdx, nextIdx, maxRounds,
                   ret, globalMinLen, bestNumMarks, best, thr>>

CompleteBcast ==
    /\ AllCalling
    /\ Kinds = {"bcast"}
    /\ \A p, q \in Procs : coll[p].root = coll[q].root /\ coll[p].cnt = coll[q].cnt
    /\ \E root \in Procs :
          /\ \A p \in Procs : coll[p].root = root
          /\ ret' = [p \in Procs |->
                 Received(coll[root].val, coll[root].marks, root)]
    /\ coll' = [p \in Procs |-> NoCall]
    /\ UNCHANGED <<inputs, others, handled, generated, explored, held, pc, globalBestLen, localBestLen, localBestMarks,
                   myPrefixes, prefixIndex, round, endIdx, nextIdx, maxRounds,
                   globalMinLen, bestNumMarks, best, thr>>

\* Calls of different kinds (a barrier or broadcast against a reduction, or
\* a call whose partners have returned from the search) never complete.

ProcStep(p) ==
    \/ Entry(p)
    \/ StartRound(p)
    \/ EndRound(p)
    \/ FoldRound(p)
    \/ AllreduceMaxPrefixes(p)
    \/ ComputeMaxRounds(p)
    \/ ResidualRound(p)
    \/ FoldResidual(p)
    \/ Barrier(p)
    \/ ReduceLen(p)
    \/ ReduceWinner(p)
    \/ BcastNumMarks(p)
    \/ BcastMarks(p)
    \/ Assign(p)
    \/ AssignEmpty(p)

WorkerStep(p, t) ==
    \/ Fetch(p, t)
    \/ CheckPrefix(p, t)
    \/ Visit(p, t)
    \/ Candidate(p, t)
    \/ CasLoad(p, t)
    \/ CasStore(p, t)
    \/ Merge(p, t)

Next ==
    \/ \E p \in Procs : ProcStep(p)
    \/ \E p \in Procs : \E t \in Threads : WorkerStep(p, t)
    \/ CompleteReduce
    \/ CompleteMismatchedReduce
    \/ CompleteBarrier
    \/ CompleteBcast

Spec == Init /\ [][Next]_vars

SpecNoSync == InitNoSync /\ [][Next]_vars

\* every process and the runtime take the steps they are able to take
SpecLive == Init /\ [][Next]_vars /\ WF_vars(Next)

(***************************************************************************)
(* SpecCount: the same search with the explored-state counter followed.    *)
(* exploredCountMPI_V3 is a static of the process: at entry it holds 0 or  *)
(* what an earlier call left in it (kept in `earlier`).                    *)
(***************************************************************************)
EarlierCounts == {0, 90}

InitCount ==
    /\ n \in 2..MaxN
    /\ maxLenArg \in 0..MaxLmax
    /\ size \in 1..(MaxP - 1)
    /\ numThreads \in {1, 2}
    /\ syncInterval \in RoundSizes
    /\ boundSync = TRUE
    /\ InitProcs
    /\ sh = Off
    /\ mw = Off
    /\ v4 = Off
    /\ dep = Off
    /\ seq = Off
    /\ cube = Off
    /\ omp = Off
    /\ mpi = Off
    /\ gen = Off
    /\ req = Off
    /\ chk = Off
    /\ held = Off
    /\ \E earlier \in EarlierCounts :
           explored = [pcS |-> "on",
                       earlier |-> earlier,
                       exploredCount |-> [p \in Procs |-> earlier],
                       threadExplored |-> [p \in Procs |-> [t \in Threads |-> 0]],
                       visits |-> [p \in Procs |-> 0]]

SpecCount == InitCount /\ [][Next]_vars

(***************************************************************************)
(* SpecStale: the same search where the relaxed loads the kernel prunes    *)
(* with (lines 196 and 219) may return any value the bound of the process  *)
(* has held earlier in the call.                                           *)
(***************************************************************************)
InitStale ==
    /\ n \in 2..MaxN
    /\ maxLenArg \in 0..MaxLmax
    /\ size \in 1..(MaxP - 1)
    /\ numThreads \in {1, 2}
    /\ syncInterval \in RoundSizes
    /\ boundSync = TRUE
    /\ InitProcs
    /\ sh = Off
    /\ mw = Off
    /\ v4 = Off
    /\ dep = Off
    /\ seq = Off
    /\ cube = Off
    /\ omp = Off
    /\ mpi = Off
    /\ gen = Off
    /\ req = Off
    /\ chk = Off
    /\ explored = Off
    /\ held = [pcS |-> "on", values |-> [p \in Procs |-> {}],
               stale |-> [p \in Procs |-> FALSE]]

SpecStale == InitStale /\ [][Next]_vars

(***************************************************************************)
(* SpecSeqV2: searchGolombSequentialV2 (src/unnamed/part_011), the         *)
(* sequential search on the same bitmap kernel.  Its BitSet128 is the code *)
(* of BitSet128_V3.                                                        *)
(***************************************************************************)
MAX_LEN_V2 == 127

StackFrameV2(rm, ud, mc, len, nc) ==
    [reversed_marks |-> rm, used_dist |-> ud, marks_count |-> mc,
     ruler_length |-> len, next_candidate |-> nc]

extractMarks(reversed_marks, ruler_length) ==
    ExtractFrom(reversed_marks, ruler_length, 0)

InitSeqV2 ==
    /\ n \in 2..MaxN
    /\ maxLenArg \in 0..MaxLmax
    /\ size = 1
    /\ numThreads = 1
    /\ syncInterval = SYNC_INTERVAL_V3
    /\ boundSync = TRUE
    /\ InitProcs
    /\ sh = Off
    /\ mw = Off
    /\ v4 = Off
    /\ dep = Off
    /\ seq = [pcS |-> "entry", firstMark |-> 0, stack |-> << >>, pos |-> 0,
              max_pos |-> 0, bestLen |-> 0, bestMarks |-> << >>,
              best |-> GolombRuler(<< >>)]
    /\ cube = Off
    /\ omp = Off
    /\ mpi = Off
    /\ gen = Off
    /\ req = Off
    /\ chk = Off
    /\ explored = Off
    /\ held = Off

SeqStep(new) ==
    /\ seq' = new
    /\ UNCHANGED <<inputs, procVars, thr, handled, generated, explored, held, cube, omp, mpi, gen, req, chk, dep, v4, mw, sh>>

\* lines 229-254: clamp, trivial cases, initial search state
SeqEntry ==
    /\ seq.pcS = "entry"
    /\ LET clamped == IF maxLenArg > MAX_LEN_V2 THEN MAX_LEN_V2 ELSE maxLenArg
       IN  IF n <= 1
           THEN SeqStep([seq EXCEPT !.best = [marks |-> <<0>>, length |-> 0],
                                    !.pcS = "done"])
           ELSE IF n = 2
           THEN SeqStep([seq EXCEPT !.best = [marks |-> <<0, 1>>, length |-> 1],
                                    !.pcS = "done"])
           ELSE SeqStep([seq EXCEPT !.bestLen = clamped + 1,
                                    !.bestMarks = << >>,
                                    !.firstMark = 1,
                                    !.pcS = "branch"])

\* lines 261-283: the loop over the first mark; lines 285-291 at its end
SeqBranch ==
    /\ seq.pcS = "branch"
    /\ LET firstMark == seq.firstMark
           frame0 == StackFrameV2(BitSet(BitSet(EmptyBits, 0), firstMark),
                                  BitSet(EmptyBits, firstMark), 2, firstMark, 0)
       IN  IF firstMark <= seq.bestLen \div 2 /\ firstMark < seq.bestLen
           THEN SeqStep([seq EXCEPT !.stack = <<frame0>>, !.pcS = "visit"])
           ELSE SeqStep([seq EXCEPT !.best = GolombRuler(seq.bestMarks),
                                    !.pcS = "done"])

\* stackTop--; backtrackIterativeV2 returns when the stack is empty
SeqPop(st) ==
    LET s == SubSeq(st.stack, 1, Len(st.stack) - 1)
    IN  IF s = << >>
        THEN [st EXCEPT !.stack = s, !.firstMark = @ + 1, !.pcS = "branch"]
        ELSE [st EXCEPT !.stack = s, !.pcS = "visit"]

\* ++pos; without a pushed child the frame is popped
SeqNextCandidate(st) ==
    IF st.pos + 1 > st.max_pos THEN SeqPop(st)
    ELSE [st EXCEPT !.pos = st.pos + 1, !.pcS = "cand"]

\* lines 139-164: top of the while loop
SeqVisit ==
    /\ seq.pcS = "visit"
    /\ LET frame == seq.stack[Len(seq.stack)]
           r == n - frame.marks_count
           minAdditionalLength == (r * (r + 1)) \div 2
           min_pos == frame.ruler_length + 1
           max_remaining == ((r - 1) * r) \div 2
           max_pos == seq.bestLen - max_remaining - 1
           startNext == IF frame.next_candidate = 0 THEN min_pos
                        ELSE frame.next_candidate
       IN  IF frame.ruler_length + minAdditionalLength >= seq.bestLen
           THEN SeqStep(SeqPop(seq))
           ELSE IF startNext > max_pos
           THEN SeqStep(SeqPop(seq))
           ELSE SeqStep([seq EXCEPT !.pos = startNext, !.max_pos = max_pos,
                                    !.pcS = "cand"])

\* lines 166-218: one iteration of the for loop
SeqCandidate ==
    /\ seq.pcS = "cand"
    /\ LET top == Len(seq.stack)
           frame == seq.stack[top]
           pos == seq.pos
           offset == pos - frame.ruler_length
           new_dist == ShiftLeft(frame.reversed_marks, offset)
           newMarksCount == frame.marks_count + 1
           final_marks == BitSet(ShiftLeft(frame.reversed_marks, offset), 0)
           newFrame == StackFrameV2(
                           BitSet(ShiftLeft(frame.reversed_marks, offset), 0),
                           BitXor(frame.used_dist, new_dist),
                           newMarksCount, pos, 0)
       IN  IF pos >= seq.bestLen
           THEN SeqStep(SeqPop(seq))
           ELSE IF BitAny(BitAnd(new_dist, frame.used_dist))
           THEN SeqStep(SeqNextCandidate(seq))
           ELSE IF newMarksCount = n
           THEN SeqStep(SeqNextCandidate(
                    [seq EXCEPT !.bestLen = pos,
                                !.bestMarks = extractMarks(final_marks, pos)]))
           ELSE SeqStep([seq EXCEPT
                    !.stack = Append(
                        [seq.stack EXCEPT ![top].next_candidate = pos + 1],
                        newFrame),
                    !.pcS = "visit"])

NextSeqV2 ==
    \/ SeqEntry
    \/ SeqBranch
    \/ SeqVisit
    \/ SeqCandidate

SpecSeqV2 == InitSeqV2 /\ [][NextSeqV2]_vars

(***************************************************************************)
(* SpecCube: one bound synchronisation of searchGolombMPI_V2               *)
(* (src/unnamed/part_009) through HypercubeMPI::allReduceMin               *)
(* (src/include/hypercube.hpp).  The parallel region of the round has      *)
(* ended on every process; bound[p] is its globalBestLen.                  *)
(***************************************************************************)
\* largest dimension of the hypercube
MaxDim == 2

RECURSIVE Pow2(_)
Pow2(k) == IF k = 0 THEN 1 ELSE 2 * Pow2(k - 1)

\* dimensions_ of a hypercube of `size` processes (size is a power of two,
\* the constructor aborts the job otherwise)
dimensions == CHOOSE k \in 0..MaxDim + 1 : Pow2(k) = size

\* rank ^ (1 << dimension)
neighbor(rank, dimension) ==
    IF (rank \div Pow2(dimension)) % 2 = 0 THEN rank + Pow2(dimension)
                                           ELSE rank - Pow2(dimension)

\* the values globalBestLen holds at the end of a round: maxLen + 1 when the
\* process found nothing, the length of its best ruler otherwise
BoundsAtRoundEnd == (maxLen - 1)..(maxLen + 1)

InitCube ==
    /\ n = MaxN
    /\ maxLenArg = MaxLmax
    /\ size \in {Pow2(k) : k \in 0..MaxDim}
    /\ numThreads = 1
    /\ syncInterval = SYNC_INTERVAL_V3
    /\ boundSync = TRUE
    /\ InitProcs
    /\ sh = Off
    /\ mw = Off
    /\ v4 = Off
    /\ dep = Off
    /\ seq = Off
    /\ omp = Off
    /\ mpi = Off
    /\ gen = Off
    /\ req = Off
    /\ chk = Off
    /\ explored = Off
    /\ held = Off
    /\ \E b \in [Procs -> BoundsAtRoundEnd] :
          cube = [pcC |-> [p \in Procs |-> "load"],
                  bound |-> b,
                  atStart |-> b,
                  localMin |-> [p \in Procs |-> 0],
                  globalMin |-> [p \in Procs |-> 0],
                  d |-> [p \in Procs |-> 0],
                  chan |-> [p \in Procs |-> [q \in Procs |-> << >>]]]

CubeStep(new) ==
    /\ cube' = new
    /\ UNCHANGED <<inputs, procVars, thr, handled, generated, explored, held, seq, omp, mpi, gen, req, chk, dep, v4, mw, sh>>

\* MPI_Sendrecv returns once the partner's message has arrived
CubeWaiting(p) ==
    /\ cube.pcC[p] = "recv"
    /\ cube.chan[neighbor(p, cube.d[p])][p] = << >>

\* The processes interact through the channels only, one writer and one
\* reader each: their steps commute and are explored in rank order.
CubeScheduled(p) ==
    \A q \in Procs : q < p => (CubeWaiting(q) \/ cube.pcC[q] = "done")

\* part_009 line 673 and hypercube.hpp lines 35-36
CubeLoad(p) ==
    /\ cube.pcC[p] = "load"
    /\ CubeScheduled(p)
    /\ CubeStep([cube EXCEPT !.localMin[p] = cube.bound[p],
                             !.globalMin[p] = cube.bound[p],
                             !.d[p] = 0,
                             !.pcC[p] = IF 0 < dimensions THEN "send"
                                                          ELSE "fold"])

\* hypercube.hpp lines 39-44: the send half of MPI_Sendrecv
CubeSend(p) ==
    /\ cube.pcC[p] = "send"
    /\ CubeScheduled(p)
    /\ LET partner == neighbor(p, cube.d[p])
       IN  CubeStep([cube EXCEPT !.chan[p][partner] =
                                     Append(@, cube.localMin[p]),
                                 !.pcC[p] = "recv"])

\* hypercube.hpp lines 42-49: the receive half, the fold of recvMin, ++d
CubeRecv(p) ==
    /\ cube.pcC[p] = "recv"
    /\ CubeScheduled(p)
    /\ LET partner == neighbor(p, cube.d[p])
           recvMin == Head(cube.chan[partner][p])
       IN  /\ cube.chan[partner][p] # << >>
           /\ CubeStep([cube EXCEPT
                  !.chan[partner][p] = Tail(@),
                  !.globalMin[p] = IF recvMin < @ THEN recvMin ELSE @,
                  !.d[p] = @ + 1,
                  !.pcC[p] = IF cube.d[p] + 1 < dimensions THEN "send"
                                                           ELSE "fold"])

\* part_009 lines 674-680: the CAS fold of the value allReduceMin returned
CubeFold(p) ==
    /\ cube.pcC[p] = "fold"
    /\ CubeScheduled(p)
    /\ CubeStep([cube EXCEPT
           !.bound[p] = IF cube.globalMin[p] < @ THEN cube.globalMin[p] ELSE @,
           !.pcC[p] = "done"])

NextCube ==
    \/ \E p \in Procs : CubeLoad(p)
    \/ \E p \in Procs : CubeSend(p)
    \/ \E p \in Procs : CubeRecv(p)
    \/ \E p \in Procs : CubeFold(p)

SpecCube == InitCube /\ [][NextCube]_vars

(***************************************************************************)
(* SpecOmp: searchGolomb, the OpenMP search with the recursive kernel      *)
(* `backtrack` (src/src/search_mpi_v3.cpp lines 502-630), called twice:    *)
(* with a bound, then with the length the first call returned.             *)
(***************************************************************************)
MAX_DIFF == 256

\* the differences a new mark makes with the marks of `current`
NewDiffs(current, next) == {next - current[i] : i \in 1..Len(current)}

\* lines 546-550 and 593-597: no difference is out of range or in use
ValidMark(current, usedDiffs, next) ==
    \A d \in NewDiffs(current, next) : d < MAX_DIFF /\ d \notin usedDiffs

OmpThread(maxLen0) ==
    [pcT |-> "fetch", iter |-> 0, current |-> <<0>>, usedDiffs |-> {},
     frames |-> << >>, localBestLen |-> maxLen0, localBestMarks |-> << >>,
     expected |-> 0]

\* The bounds of the first call: the small bounds with every thread count,
\* the full bound MAX_LEN_V3 = 127 with one thread.
FirstBounds(threads) ==
    IF threads = 1 THEN (0..MaxLmax) \cup {MAX_LEN_V3} ELSE 0..MaxLmax

InitOmp ==
    /\ n \in 2..MaxN
    /\ numThreads \in 1..MaxThreads
    /\ maxLenArg \in FirstBounds(numThreads)
    /\ size = 1
    /\ syncInterval = SYNC_INTERVAL_V3
    /\ boundSync = TRUE
    /\ InitProcs
    /\ sh = Off
    /\ mw = Off
    /\ v4 = Off
    /\ dep = Off
    /\ seq = Off
    /\ cube = Off
    /\ mpi = Off
    /\ gen = Off
    /\ req = Off
    /\ chk = Off
    /\ explored = Off
    /\ held = Off
    /\ omp = [pcS |-> "call", call |-> 1, maxLen |-> maxLenArg,
              globalBestLen |-> 0, bestLen |-> 0, bestMarks |-> << >>,
              nextIter |-> 0, first |-> GolombRuler(<< >>),
              best |-> GolombRuler(<< >>),
              th |-> [t \in Threads |-> OmpThread(0)]]

OmpStep(new) ==
    /\ omp' = new
    /\ UNCHANGED <<inputs, procVars, thr, handled, generated, explored, held, seq, cube, mpi, gen, req, chk, dep, v4, mw, sh>>

\* lines 565-584: the locals of searchGolomb and of the parallel region
OmpCall ==
    /\ omp.pcS = "call"
    /\ OmpStep([omp EXCEPT !.bestLen = omp.maxLen,
                           !.bestMarks = << >>,
                           !.globalBestLen = omp.maxLen,
                           !.nextIter = 1,
                           !.th = [t \in Threads |-> OmpThread(omp.maxLen)],
                           !.pcS = "parallel"])

OmpAt(t, label) == omp.pcS = "parallel" /\ omp.th[t].pcT = label

\* omp for schedule(dynamic, 1) over next = 1 .. maxLen
OmpFetch(t) ==
    /\ OmpAt(t, "fetch")
    /\ IF omp.nextIter <= omp.maxLen
       THEN OmpStep([omp EXCEPT !.th[t].iter = omp.nextIter,
                                !.th[t].pcT = "check",
                                !.nextIter = @ + 1])
       ELSE OmpStep([omp EXCEPT !.th[t].pcT = "barrier"])

\* lines 589-604: prune against the bound, place the mark, call backtrack
OmpCheck(t) ==
    /\ OmpAt(t, "check")
    /\ LET th == omp.th[t]
           next == th.iter
       IN  IF next >= omp.globalBestLen
           THEN OmpStep([omp EXCEPT !.th[t].pcT = "fetch"])
           ELSE IF ~ValidMark(<<0>>, th.usedDiffs, next)
           THEN OmpStep([omp EXCEPT !.th[t].pcT = "fetch"])
           ELSE OmpStep([omp EXCEPT
                    !.th[t].usedDiffs = @ \cup NewDiffs(<<0>>, next),
                    !.th[t].current = Append(@, next),
                    !.th[t].pcT = "enter"])

\* the code after a call of backtrack: pop the mark, reset its differences,
\* go on with the loop of the caller
Return(th) ==
    LET k == Len(th.current)
        rest == SubSeq(th.current, 1, k - 1)
        undone == [th EXCEPT !.current = rest,
                             !.usedDiffs = @ \ NewDiffs(rest, th.current[k])]
        top == Len(th.frames)
    IN  IF th.frames = << >>
        THEN [undone EXCEPT !.pcT = "fetch"]
        ELSE [undone EXCEPT !.frames[top].next = @ + 1, !.pcT = "loop"]

\* lines 518-539: entry of backtrack, a leaf or the bound of the loop
backtrackEnter(t) ==
    /\ OmpAt(t, "enter")
    /\ LET th == omp.th[t]
           newLen == th.current[Len(th.current)]
           start == th.current[Len(th.current)] + 1
           currentGlobalBest == omp.globalBestLen
           effectiveBestLen == Min2(th.localBestLen, currentGlobalBest)
       IN  IF Len(th.current) = n
           THEN OmpStep([omp EXCEPT !.th[t].localBestLen = newLen,
                                    !.th[t].localBestMarks = th.current,
                                    !.th[t].expected = omp.globalBestLen,
                                    !.th[t].pcT = "cas"])
           ELSE OmpStep([omp EXCEPT
                    !.th[t].frames = Append(@,
                        [next |-> start,
                         effectiveBestLen |-> effectiveBestLen]),
                    !.th[t].pcT = "loop"])

\* lines 527-532: one turn of the CAS loop
backtrackCas(t) ==
    /\ OmpAt(t, "cas")
    /\ LET th == omp.th[t]
           newLen == th.current[Len(th.current)]
       IN  IF newLen < th.expected
           THEN IF omp.globalBestLen = th.expected
                THEN OmpStep([omp EXCEPT !.globalBestLen = newLen,
                                         !.th[t] = Return(th)])
                ELSE OmpStep([omp EXCEPT
                         !.th[t].expected = omp.globalBestLen])
           ELSE OmpStep([omp EXCEPT !.th[t] = Return(th)])

\* lines 541-562: the loop up to the next recursive call, or to its end
backtrackLoop(t) ==
    /\ OmpAt(t, "loop")
    /\ LET th == omp.th[t]
           top == Len(th.frames)
           frame == th.frames[top]
           last == Min2(frame.effectiveBestLen, MAX_DIFF - 1)
           calls == {next \in frame.next..last :
                        /\ ValidMark(th.current, th.usedDiffs, next)
                        /\ next < frame.effectiveBestLen}
           next == SetMin(calls)
       IN  IF calls = {}
           THEN OmpStep([omp EXCEPT !.th[t] =
                    Return([th EXCEPT !.frames = SubSeq(@, 1, top - 1)])])
           ELSE OmpStep([omp EXCEPT
                    !.th[t].frames[top].next = next,
                    !.th[t].usedDiffs = @ \cup NewDiffs(th.current, next),
                    !.th[t].current = Append(@, next),
                    !.th[t].pcT = "enter"])

\* the implicit barrier at the end of the omp for, then the test of line 611
OmpMergeTest(t) ==
    /\ OmpAt(t, "barrier")
    /\ \A u \in Threads :
          omp.th[u].pcT \in {"barrier", "critical", "joined"}
    /\ IF omp.th[t].localBestLen < omp.bestLen
       THEN OmpStep([omp EXCEPT !.th[t].pcT = "critical"])
       ELSE OmpStep([omp EXCEPT !.th[t].pcT = "joined"])

\* lines 612-618: omp critical
OmpCritical(t) ==
    /\ OmpAt(t, "critical")
    /\ LET th == omp.th[t]
       IN  IF th.localBestLen < omp.bestLen
           THEN OmpStep([omp EXCEPT !.bestLen = th.localBestLen,
                                    !.bestMarks = th.localBestMarks,
                                    !.th[t].pcT = "joined"])
           ELSE OmpStep([omp EXCEPT !.th[t].pcT = "joined"])

\* lines 620-624: the region ends, the result is copied out
OmpReturn ==
    /\ omp.pcS = "parallel"
    /\ \A t \in Threads : omp.th[t].pcT = "joined"
    /\ OmpStep([omp EXCEPT !.best = GolombRuler(omp.bestMarks),
                           !.pcS = IF omp.call = 1 THEN "returned"
                                                   ELSE "done"])

\* the caller searches again with the length it obtained as the bound
OmpTighten ==
    /\ omp.pcS = "returned"
    /\ OmpStep([omp EXCEPT !.first = omp.best,
                           !.call = 2,
                           !.maxLen = omp.best.length,
                           !.pcS = "call"])

NextOmp ==
    \/ OmpCall
    \/ \E t \in Threads : OmpFetch(t)
    \/ \E t \in Threads : OmpCheck(t)
    \/ \E t \in Threads : backtrackEnter(t)
    \/ \E t \in Threads : backtrackCas(t)
    \/ \E t \in Threads : backtrackLoop(t)
    \/ \E t \in Threads : OmpMergeTest(t)
    \/ \E t \in Threads : OmpCritical(t)
    \/ OmpReturn
    \/ OmpTighten

SpecOmp == InitOmp /\ [][NextOmp]_vars

(***************************************************************************)
(* SpecSingle: searchGolombMPI on one process (src/src/search_mpi.cpp      *)
(* lines 243-288): a loop over the first mark, processBranch with its      *)
(* OpenMP region, and the recursive kernel backtrackMPI.  `stores` records *)
(* every value written into globalBestLen.                                 *)
(***************************************************************************)
MAX_MARKS == 24

\* SearchState state{}
SearchState ==
    [pcT |-> "init", second |-> 0, marks |-> << >>, usedDiffs |-> {},
     diffs |-> [i \in 1..MAX_MARKS |-> 0], frames |-> << >>, bestLen |-> 0,
     bestNumMarks |-> 0, bestMarks |-> << >>, expected |-> 0]

InitSingle ==
    /\ n \in 2..MaxN
    /\ maxLenArg \in 0..MaxLmax
    /\ size = 1
    /\ numThreads \in 1..MaxThreads
    /\ syncInterval = SYNC_INTERVAL_V3
    /\ boundSync = TRUE
    /\ InitProcs
    /\ sh = Off
    /\ mw = Off
    /\ v4 = Off
    /\ dep = Off
    /\ seq = Off
    /\ cube = Off
    /\ omp = Off
    /\ gen = Off
    /\ req = Off
    /\ chk = Off
    /\ explored = Off
    /\ held = Off
    /\ mpi = [pcS |-> "entry", branch |-> 0, bestLen |-> 0,
              bestMarks |-> << >>, globalBestLen |-> 0, stores |-> << >>,
              resultBestLen |-> 0, resultMarks |-> << >>, maxSecond |-> 0,
              nextSecond |-> 0, th |-> [t \in Threads |-> SearchState],
              best |-> GolombRuler(<< >>)]

MpiStep(new) ==
    /\ mpi' = new
    /\ UNCHANGED <<inputs, procVars, thr, handled, generated, explored, held, seq, cube, omp, gen, req, chk, dep, v4, mw, sh>>

\* lines 245-263: the locals of searchGolombMPI, branch = 1
SingleEntry ==
    /\ mpi.pcS = "entry"
    /\ MpiStep([mpi EXCEPT !.bestLen = maxLenArg,
                           !.bestMarks = << >>,
                           !.globalBestLen = maxLenArg,
                           !.branch = 1,
                           !.pcS = "branchLoop"])

\* lines 263-264 and 159-173: the loop test, then the entry of
\* processBranch; lines 284-287 when the loop ends
processBranch ==
    /\ mpi.pcS = "branchLoop"
    /\ IF mpi.branch < maxLenArg /\ mpi.branch < mpi.globalBestLen
       THEN MpiStep([mpi EXCEPT
                !.resultBestLen = mpi.globalBestLen,
                !.resultMarks = << >>,
                !.maxSecond = Min2(mpi.globalBestLen, MAX_DIFF - 1),
                !.nextSecond = mpi.branch + 1,
                !.th = [t \in Threads |-> SearchState],
                !.pcS = "region"])
       ELSE MpiStep([mpi EXCEPT !.best = GolombRuler(mpi.bestMarks),
                                !.pcS = "done"])

MpiAt(t, label) == mpi.pcS = "region" /\ mpi.th[t].pcT = label

\* lines 168-174: the thread's state, bestLen from globalBestLen
BranchThreadInit(t) ==
    /\ MpiAt(t, "init")
    /\ MpiStep([mpi EXCEPT !.th[t].marks = <<0, mpi.branch>>,
                           !.th[t].bestLen = mpi.globalBestLen,
                           !.th[t].bestNumMarks = 0,
                           !.th[t].pcT = "fetch"])

\* omp for schedule(dynamic, 1) nowait over second
BranchFetch(t) ==
    /\ MpiAt(t, "fetch")
    /\ IF mpi.nextSecond < mpi.maxSecond
       THEN MpiStep([mpi EXCEPT !.th[t].second = mpi.nextSecond,
                                !.th[t].pcT = "check",
                                !.nextSecond = @ + 1])
       ELSE MpiStep([mpi EXCEPT !.th[t].pcT = "merge"])

\* lines 179-201: prune, set up the three marks, call backtrackMPI
BranchCheck(t) ==
    /\ MpiAt(t, "check")
    /\ LET second == mpi.th[t].second
           branchStart == mpi.branch
           currentBest == mpi.globalBestLen
           d1 == second
           d2 == second - branchStart
       IN  IF second >= currentBest
           THEN MpiStep([mpi EXCEPT !.th[t].pcT = "fetch"])
           ELSE IF d1 = branchStart
           THEN MpiStep([mpi EXCEPT !.th[t].pcT = "fetch"])
           ELSE MpiStep([mpi EXCEPT
                    !.th[t].usedDiffs = {branchStart, d1, d2},
                    !.th[t].marks = <<0, branchStart, second>>,
                    !.th[t].frames = << >>,
                    !.th[t].pcT = "enter"])

\* lines 113-122: the differences of `next`, written into state.diffs up
\* to the first one in use
RECURSIVE CheckDiffs(_, _, _, _, _, _)
CheckDiffs(marks, usedDiffs, diffs, next, i, numNewDiffs) ==
    IF i > Len(marks)
    THEN [valid |-> TRUE, diffs |-> diffs, numNewDiffs |-> numNewDiffs]
    ELSE IF (next - marks[i]) \in usedDiffs
    THEN [valid |-> FALSE, diffs |-> diffs, numNewDiffs |-> numNewDiffs]
    ELSE CheckDiffs(marks, usedDiffs,
                    [diffs EXCEPT ![numNewDiffs + 1] = next - marks[i]],
                    next, i + 1, numNewDiffs + 1)

\* lines 140-146 in the caller: numMarks and the differences listed in
\* state.diffs are undone, the loop goes on
ReturnMPI(st) ==
    LET top == Len(st.frames)
        f == st.frames[top]
    IN  IF st.frames = << >>
        THEN [st EXCEPT !.pcT = "fetch"]
        ELSE [st EXCEPT
                 !.marks = SubSeq(@, 1, f.numMarks),
                 !.usedDiffs = @ \ {st.diffs[i] : i \in 1..f.numNewDiffs},
                 !.frames[top].next = @ + 1,
                 !.pcT = "loop"]

\* lines 107-146: the loop from `next` up to the next recursive call, or
\* to its end
RECURSIVE ScanLoop(_, _)
ScanLoop(st, next) ==
    LET top == Len(st.frames)
        f == st.frames[top]
        c == CheckDiffs(st.marks, st.usedDiffs, st.diffs, next, 1, 0)
        applied == {c.diffs[i] : i \in 1..c.numNewDiffs}
    IN  IF next > f.maxNext
        THEN ReturnMPI([st EXCEPT !.frames = SubSeq(@, 1, top - 1)])
        ELSE IF ~c.valid
        THEN ScanLoop([st EXCEPT !.diffs = c.diffs], next + 1)
        ELSE IF next < f.effectiveBest
        THEN [st EXCEPT !.diffs = c.diffs,
                        !.usedDiffs = @ \cup applied,
                        !.marks = Append(@, next),
                        !.frames[top].next = next,
                        !.frames[top].numNewDiffs = c.numNewDiffs,
                        !.pcT = "enter"]
        ELSE ScanLoop([st EXCEPT !.diffs = c.diffs,
                                 !.usedDiffs = (@ \cup applied) \ applied],
                      next + 1)

\* lines 73-105: entry of backtrackMPI, a leaf or the bounds of the loop
backtrackMPIEnter(t) ==
    /\ MpiAt(t, "enter")
    /\ LET st == mpi.th[t]
           numMarks == Len(st.marks)
           newLen == st.marks[numMarks]
           effectiveBest == Min2(st.bestLen, mpi.globalBestLen)
       IN  IF numMarks = n
           THEN MpiStep([mpi EXCEPT !.th[t].bestLen = newLen,
                                    !.th[t].bestNumMarks = n,
                                    !.th[t].bestMarks = st.marks,
                                    !.th[t].expected = mpi.globalBestLen,
                                    !.th[t].pcT = "cas"])
           ELSE MpiStep([mpi EXCEPT
                    !.th[t].frames = Append(@,
                        [next |-> newLen + 1,
                         effectiveBest |-> effectiveBest,
                         maxNext |-> Min2(effectiveBest, MAX_DIFF - 1),
                         numMarks |-> numMarks,
                         numNewDiffs |-> 0]),
                    !.th[t].pcT = "loop"])

\* lines 84-89: one turn of the CAS loop
backtrackMPICas(t) ==
    /\ MpiAt(t, "cas")
    /\ LET st == mpi.th[t]
           newLen == st.bestLen
       IN  IF newLen < st.expected
           THEN IF mpi.globalBestLen = st.expected
                THEN MpiStep([mpi EXCEPT !.globalBestLen = newLen,
                                         !.stores = Append(@, newLen),
                                         !.th[t] = ReturnMPI(st)])
                ELSE MpiStep([mpi EXCEPT
                         !.th[t].expected = mpi.globalBestLen])
           ELSE MpiStep([mpi EXCEPT !.th[t] = ReturnMPI(st)])

backtrackMPILoop(t) ==
    /\ MpiAt(t, "loop")
    /\ LET st == mpi.th[t]
       IN  MpiStep([mpi EXCEPT !.th[t] =
               ScanLoop(st, st.frames[Len(st.frames)].next)])

\* lines 208-219: omp critical(update_result)
BranchMerge(t) ==
    /\ MpiAt(t, "merge")
    /\ LET st == mpi.th[t]
       IN  IF st.bestNumMarks > 0 /\ st.bestLen < mpi.resultBestLen
           THEN MpiStep([mpi EXCEPT !.resultBestLen = st.bestLen,
                                    !.resultMarks = st.bestMarks,
                                    !.th[t].pcT = "joined"])
           ELSE MpiStep([mpi EXCEPT !.th[t].pcT = "joined"])

\* lines 220-221 and 272-282: the region ends, processBranch returns, the
\* branch's best is taken and written into globalBestLen, ++branch
BranchReturn ==
    /\ mpi.pcS = "region"
    /\ \A t \in Threads : mpi.th[t].pcT = "joined"
    /\ LET branchBestLen == mpi.resultBestLen
       IN  IF branchBestLen < mpi.bestLen
           THEN MpiStep([mpi EXCEPT !.bestLen = branchBestLen,
                                    !.bestMarks = mpi.resultMarks,
                                    !.globalBestLen = branchBestLen,
                                    !.stores = Append(@, branchBestLen),
                                    !.branch = @ + 1,
                                    !.pcS = "branchLoop"])
           ELSE MpiStep([mpi EXCEPT !.branch = @ + 1,
                                    !.pcS = "branchLoop"])

NextSingle ==
    \/ SingleEntry
    \/ processBranch
    \/ \E t \in Threads : BranchThreadInit(t)
    \/ \E t \in Threads : BranchFetch(t)
    \/ \E t \in Threads : BranchCheck(t)
    \/ \E t \in Threads : backtrackMPIEnter(t)
    \/ \E t \in Threads : backtrackMPICas(t)
    \/ \E t \in Threads : backtrackMPILoop(t)
    \/ \E t \in Threads : BranchMerge(t)
    \/ BranchReturn

SpecSingle == InitSingle /\ [][NextSingle]_vars

(***************************************************************************)
(* SpecGen: phase 1 of searchGolombMPI_V3 (lines 318-341) on two processes *)
(* whose OpenMP thread counts are set independently (OMP_NUM_THREADS of    *)
(* each node).  Each process computes its prefix depth from the total      *)
(* worker count it sees and generates the prefix list.                     *)
(***************************************************************************)
\* threads per process: with two processes the totals 64 and 66 lie on
\* both sides of the totalWorkers > 64 test of line 293
ThreadCounts == {1, 2, 32, 33}

\* orders of the model, and orders above 16, where the depth follows the
\* worker count
GenOrders == (2..MaxN) \cup {17, MAX_MARKS_V3}

GenBounds == (0..MaxLmax) \cup {MAX_LEN_V3, MAX_LEN_V3 + 1}

InitGen ==
    /\ n \in GenOrders
    /\ maxLenArg \in GenBounds
    /\ size = 2
    /\ numThreads = 1
    /\ syncInterval = SYNC_INTERVAL_V3
    /\ boundSync = TRUE
    /\ InitProcs
    /\ sh = Off
    /\ mw = Off
    /\ v4 = Off
    /\ dep = Off
    /\ seq = Off
    /\ cube = Off
    /\ omp = Off
    /\ mpi = Off
    /\ req = Off
    /\ chk = Off
    /\ explored = Off
    /\ held = Off
    /\ \E threads \in [Procs -> ThreadCounts] :
           gen = [pcS |-> "on", threads |-> threads,
                  prefixDepth |-> [p \in Procs |-> 0],
                  pcG |-> [p \in Procs |-> "entry"]]

\* lines 329-341 on a process of `threads` threads
PrefixesOf(threads) ==
    generatePrefixesMPI_V3(BitSet(EmptyBits, 0), EmptyBits, 1, 0,
        computePrefixDepthMPI_V3(n, size, threads), n, maxLen + 1)

\* lines 318-341: numThreads, prefixDepth, allPrefixes
GenEntry(p) ==
    /\ gen.pcS = "on"
    /\ gen.pcG[p] = "entry"
    /\ gen' = [gen EXCEPT
           !.prefixDepth[p] = computePrefixDepthMPI_V3(n, size, gen.threads[p]),
           !.pcG[p] = "generated"]
    /\ generated' = [generated EXCEPT ![p] = PrefixesOf(gen.threads[p])]
    /\ UNCHANGED <<inputs, procVars, thr, handled, explored, held, seq, cube, omp, mpi, req, chk, dep, v4, mw, sh>>

NextGen == \E p \in Procs : GenEntry(p)

SpecGen == InitGen /\ [][NextGen]_vars

(***************************************************************************)
(* SpecArgs: how a request enters the search.  Three entry points are      *)
(* modelled: main of src/src/main_mpi.cpp with one command-line argument,  *)
(* main of src/src/main_openmp_v6.cpp, and a direct call of                *)
(* searchGolombMPI_V3(n, maxLen, best).  argN is the value atoi returns    *)
(* for argv[1]; argMaxLen is the maxLen argument of the direct call.  The  *)
(* thread count is omp_get_max_threads() and the process count is that of  *)
(* MPI_COMM_WORLD: both are at least 1 and no entry point takes them as    *)
(* an argument.                                                            *)
(***************************************************************************)
ArgOrders == (0 - 1)..(MAX_MARKS_V3 + 2)

ArgBounds == {0 - 1, 0, 1, MaxLmax, MAX_LEN_V3 - 1, MAX_LEN_V3, MAX_LEN_V3 + 1}

\* main_mpi.cpp lines 18-26
DEFAULT_MAX_LEN(devMode) == IF devMode THEN 100 ELSE 200

\* main_openmp_v6.cpp line 27, indexed from 1
knownOptimal == <<0, 0, 1, 3, 6, 11, 17, 25, 34, 44, 55, 72, 85, 106, 127>>

Request(entry, argN, argMaxLen, devMode, threads) ==
    [pcS |-> "on", entry |-> entry, argN |-> argN, argMaxLen |-> argMaxLen,
     devMode |-> devMode, threads |-> threads,
     pcR |-> "called", reported |-> FALSE,
     n |-> 0, maxLen |-> 0, globalBestLen |-> 0, prefixDepth |-> 0]

InitArgs ==
    /\ n = 2
    /\ maxLenArg = 0
    /\ size = 1
    /\ numThreads = 1
    /\ syncInterval = SYNC_INTERVAL_V3
    /\ boundSync = TRUE
    /\ InitProcs
    /\ sh = Off
    /\ mw = Off
    /\ v4 = Off
    /\ dep = Off
    /\ seq = Off
    /\ cube = Off
    /\ omp = Off
    /\ mpi = Off
    /\ gen = Off
    /\ chk = Off
    /\ explored = Off
    /\ held = Off
    /\ \/ \E argN \in ArgOrders, devMode \in BOOLEAN :
              req = Request("main_mpi", argN, 0, devMode, 1)
       \/ \E argN \in ArgOrders, threads \in ThreadCounts :
              req = Request("main_openmp_v6", argN, 0, FALSE, threads)
       \/ \E argN \in ArgOrders, argMaxLen \in ArgBounds, threads \in ThreadCounts :
              req = Request("searchGolombMPI_V3", argN, argMaxLen, FALSE, threads)

ArgsStep(new) ==
    /\ req' = new
    /\ UNCHANGED <<inputs, procVars, thr, handled, generated, explored, held, seq, cube, omp, mpi, gen, chk, dep, v4, mw, sh>>

\* the error branch of a main: message on stderr, return 1
Rejected == [req EXCEPT !.pcR = "returned", !.reported = TRUE]

\* main_mpi.cpp lines 83-93 and runSingleN line 45
MainMpi ==
    /\ req.pcS = "on"
    /\ req.entry = "main_mpi"
    /\ req.pcR = "called"
    /\ IF req.argN < 2 \/ req.argN > 24
       THEN ArgsStep(Rejected)
       ELSE ArgsStep([req EXCEPT !.pcR = "searching",
                                 !.n = req.argN,
                                 !.maxLen = DEFAULT_MAX_LEN(req.devMode),
                                 !.globalBestLen = DEFAULT_MAX_LEN(req.devMode)])

\* main_openmp_v6.cpp lines 16-43
MainOpenmpV6 ==
    /\ req.pcS = "on"
    /\ req.entry = "main_openmp_v6"
    /\ req.pcR = "called"
    /\ IF req.argN < 2 \/ req.argN > 20
       THEN ArgsStep(Rejected)
       ELSE LET len == IF req.argN <= 14 THEN knownOptimal[req.argN + 1]
                       ELSE req.argN * req.argN
            IN  ArgsStep([req EXCEPT !.pcR = "searching",
                                     !.n = req.argN,
                                     !.maxLen = len])

\* search_mpi_v3.cpp lines 306-329
EnterV3 ==
    /\ req.pcS = "on"
    /\ req.entry = "searchGolombMPI_V3"
    /\ req.pcR = "called"
    /\ LET len == IF req.argMaxLen > MAX_LEN_V3 THEN MAX_LEN_V3 ELSE req.argMaxLen
       IN  ArgsStep([req EXCEPT !.pcR = "searching",
                                !.n = req.argN,
                                !.maxLen = len,
                                !.globalBestLen = len + 1,
                                !.prefixDepth = computePrefixDepthMPI_V3(req.argN, size, req.threads)])

NextArgs ==
    \/ MainMpi
    \/ MainOpenmpV6
    \/ EnterV3

SpecArgs == InitArgs /\ [][NextArgs]_vars

(***************************************************************************)
(* SpecValid: one call of GolombRuler::isValid (src/include/search_v5.hpp  *)
(* lines 52-66) on a list of marks with values in [0, MAX_LEN_V3].         *)
(***************************************************************************)
MaxMarks == 3

CheckValues == (0..MaxLmax) \cup {MAX_LEN_V3}

CheckLists == UNION {[1..k -> CheckValues] : k \in 0..MaxMarks}

\* The two loops of isValid from the pair (i, j) on, with the bits of `seen`
\* as a set; indices from 1.  The value is the set of outcomes of the call.
\* For d < 0 the read seen[d] is outside the bitset (undefined behaviour):
\* the call returns false if the bit read is set, seen.set(d) throws
\* std::out_of_range if it is clear, and the read itself can fault.
RECURSIVE isValidFrom(_, _, _, _)
isValidFrom(marks, i, j, seen) ==
    IF i > Len(marks) THEN {"true"}
    ELSE IF j > Len(marks) THEN isValidFrom(marks, i + 1, i + 2, seen)
    ELSE LET d == marks[j] - marks[i]
         IN  IF d >= MAX_DIFF THEN {"false"}
             ELSE IF d < 0 THEN {"false", "out_of_range", "fault"}
             ELSE IF d \in seen THEN {"false"}
             ELSE isValidFrom(marks, i, j + 1, seen \cup {d})

isValid(marks) == isValidFrom(marks, 1, 2, {})

InitValid ==
    /\ n = 2
    /\ maxLenArg = 0
    /\ size = 1
    /\ numThreads = 1
    /\ syncInterval = SYNC_INTERVAL_V3
    /\ boundSync = TRUE
    /\ InitProcs
    /\ sh = Off
    /\ mw = Off
    /\ v4 = Off
    /\ dep = Off
    /\ seq = Off
    /\ cube = Off
    /\ omp = Off
    /\ mpi = Off
    /\ gen = Off
    /\ req = Off
    /\ explored = Off
    /\ held = Off
    /\ \E marks \in CheckLists :
           chk = [pcS |-> "on", marks |-> marks, pcV |-> "called", result |-> "none"]

CallIsValid ==
    /\ chk.pcS = "on"
    /\ chk.pcV = "called"
    /\ \E outcome \in isValid(chk.marks) :
           chk' = [chk EXCEPT !.pcV = "finished", !.result = outcome]
    /\ UNCHANGED <<inputs, procVars, thr, handled, generated, explored, held, seq, cube, omp, mpi, gen, req, dep, v4, mw, sh>>

NextValid == CallIsValid

SpecValid == InitValid /\ [][NextValid]_vars

(***************************************************************************)
(* Reference definitions: what a Golomb ruler is (the checks of the test   *)
(* harness) and the shortest ruler within a bound, by enumeration.         *)
(***************************************************************************)
verifyUniqueDifferences(marks) ==
    \A i, j, k, l \in 1..Len(marks) :
        (i < j /\ k < l) =>
            /\ marks[j] - marks[i] > 0
            /\ (marks[j] - marks[i] = marks[l] - marks[k]) => (i = k /\ j = l)

verifyRulerStructure(ruler, expectedN) ==
    /\ Len(ruler.marks) = expectedN
    /\ ruler.marks # << >>
    /\ ruler.marks[1] = 0
    /\ \A i \in 2..Len(ruler.marks) : ruler.marks[i] > ruler.marks[i - 1]
    /\ ruler.length = ruler.marks[Len(ruler.marks)]

\* the mark sets of the Golomb rulers of order nn and length <= L
IsGolombSet(M) ==
    \A a, b, c, d \in M : (a < b /\ c < d /\ b - a = d - c) => (a = c /\ b = d)

Rulers(nn, L) ==
    {M \in {X \cup {0} : X \in SUBSET (1..L)} :
        Cardinality(M) = nn /\ IsGolombSet(M)}

ShortestLen(nn, L) == SetMin({SetMax(M) : M \in Rulers(nn, L)})

AllDone == \A p \in Procs : pc[p] = "done"

(***************************************************************************)
(* Claims on searchGolombMPI_V3.                                           *)
(***************************************************************************)

\* C1: whenever a Golomb ruler of order n and length <= L_max exists, the
\* search returns a ruler of the minimum length, for every n, L_max and
\* worker/process configuration.
C1_ReturnsShortest ==
    \A p \in Procs :
        (pc[p] = "done" /\ Rulers(n, maxLenArg) # {})
            => best[p].length = ShortestLen(n, maxLenArg)

\* C2: every non-empty solution returned has exactly n marks, starts at 0,
\* is strictly ascending, has pairwise distinct differences, and its length
\* is its last mark.
C2_ReturnedRulerValid ==
    \A p \in Procs :
        (pc[p] = "done" /\ best[p].marks # << >>)
            => /\ verifyRulerStructure(best[p], n)
               /\ verifyUniqueDifferences(best[p].marks)

\* a ruler found by one of two threads, reduced over three processes
C2_Witness ==
    /\ AllDone
    /\ size = 3
    /\ numThreads = 2
    /\ n = 4
    /\ best[2].marks # << >>

\* The length every run returns for (n, L_max): the shortest ruler's when
\* the prefix depth leaves marks to place, 0 (empty) otherwise.
ExpectedLength(nn, L) ==
    IF computePrefixDepthMPI_V3(nn, 1, 1) < nn /\ Rulers(nn, L) # {}
    THEN ShortestLen(nn, L)
    ELSE 0

\* C3: for fixed n and L_max the returned length is the same for every
\* thread count, process count (power of two or not), round size and
\* interleaving.
C3_LengthDeterministic ==
    \A p \in Procs :
        (boundSync /\ pc[p] = "done")
            => best[p].length = ExpectedLength(n, maxLenArg)

\* three processes (not a power of two) of two threads; rank 2 owns only
\* the prefix {0, 3}, which has no completion of length 3
C3_Witness ==
    /\ AllDone
    /\ boundSync
    /\ size = 3
    /\ numThreads = 2
    /\ n = 3
    /\ maxLenArg = 4
    /\ best[2].length = 3

\* C5: for every process count and number of prefixes, every process
\* eventually completes the search call; no process blocks forever in a
\* bound exchange, the job-count all-reduce, the barrier, the final
\* reductions or the broadcast.
C5_EveryProcessCompletes == <>AllDone

\* the largest number of jobs assigned to any process
MaxJobs == SetMax({Len(SelectMine(allPrefixes, 0, q)) : q \in Procs})

CeilDiv(a, b) == (a + b - 1) \div b

\* C6: every process takes part in exactly ceil(max_jobs / S) bound
\* all-reduce-min rounds, and has issued the job-count all-reduce-max before
\* its first round.
C6_RoundsFromInitialMax ==
    \A p \in Procs :
        /\ pc[p] \in {"reduceLen", "reduceWinner", "winner", "bcastMarks",
                      "assign", "done"}
              => round[p] = CeilDiv(MaxJobs, syncInterval)
        /\ pc[p] \in {"parallel", "fold", "foldResidual"}
              => maxRounds[p] = CeilDiv(MaxJobs, syncInterval)

\* C10: with the inter-process bound synchronisation disabled the kernel,
\* run on the same prefixes, returns the length of the synchronised run.
C10_SameLengthWithoutSync ==
    \A p \in Procs :
        (~boundSync /\ pc[p] = "done")
            => best[p].length = ExpectedLength(n, maxLenArg)

\* rank 2 never learnt the bound of rank 0 and returns the same ruler
C10_Witness ==
    /\ AllDone
    /\ ~boundSync
    /\ size = 3
    /\ n = 4
    /\ globalBestLen[0] < globalBestLen[2]
    /\ best[2].length = 6

(***************************************************************************)
(* Claims on searchGolombSequentialV2.                                     *)
(***************************************************************************)

\* C4: when no Golomb ruler of order n and length <= L_max exists (L_max = 0
\* with n >= 2 in particular) the search returns the empty solution, no
\* marks and length 0, never a ruler longer than L_max.
C4_NoRulerMeansEmpty ==
    (seq.pcS = "done" /\ Rulers(n, maxLenArg) = {})
        => (seq.best.marks = << >> /\ seq.best.length = 0)

(***************************************************************************)
(* Claims on the bound synchronisation of searchGolombMPI_V2.              *)
(***************************************************************************)

\* C8: after a bound-synchronisation round the bound of every process is at
\* most the minimum of the bounds all processes held when the round's
\* collective began.
C8_BoundAtMostMinAtStart ==
    \A p \in Procs :
        cube.pcC[p] = "done"
            => cube.bound[p] <= SetMin({cube.atStart[q] : q \in Procs})

(***************************************************************************)
(* Claims on searchGolomb.                                                 *)
(***************************************************************************)

\* C9: if search(n, 127, W) returns length L*, then search(n, L*, W)
\* returns a ruler of length L* as well.
C9_TightenedBoundSameLength ==
    (omp.pcS = "done" /\ maxLenArg = MAX_LEN_V3)
        => omp.best.length = omp.first.length

(***************************************************************************)
(* Claims on the stores into globalBestLen.                                *)
(***************************************************************************)

\* C7: the successive values stored into global_bound during one search
\* call are strictly decreasing: no store raises the value or writes the
\* value already held.
C7_StoresStrictlyDecreasing ==
    \A i \in 1..Len(mpi.stores) :
        mpi.stores[i] < (IF i = 1 THEN maxLenArg ELSE mpi.stores[i - 1])

(***************************************************************************)
(* Claims on the small orders.                                             *)
(***************************************************************************)

\* C11: for n = 2 and any L_max >= 1 the search returns length 1 and the
\* marks [0, 1].
C11_OrderTwo ==
    \A p \in Procs :
        (pc[p] = "done" /\ n = 2 /\ maxLenArg >= 1)
            => (best[p].marks = <<0, 1>> /\ best[p].length = 1)

MinLocalBestLen == SetMin({localBestLen[q] : q \in Procs})

\* the processes whose local best is a complete n-mark ruler of length L*
Holders ==
    {q \in Procs :
        /\ Len(localBestMarks[q]) = n
        /\ localBestMarks[q][n] = MinLocalBestLen
        /\ localBestLen[q] = MinLocalBestLen}

\* globalWinner is in the receive buffer of p
WinnerKnown(p) == pc[p] = "winner" /\ ~Blocked(p)

\* C13: the winner of the final reduction is the lowest-ranked process whose
\* local best is a complete n-mark ruler of length L*, the all-reduce
\* minimum of the local best lengths; a process that holds no marks is
\* never selected, and without such a process the winner is P.
C13_WinnerLowestHolder ==
    \A p \in Procs :
        WinnerKnown(p) =>
            /\ ret[p].val = (IF Holders = {} THEN size ELSE SetMin(Holders))
            /\ ret[p].val < size => localBestMarks[ret[p].val] # << >>

\* three processes: ranks 0 and 1 both hold a ruler of length L*, rank 2
\* holds no marks, and rank 2 has received winner 0
C13_Witness ==
    /\ size = 3
    /\ Holders = {0, 1}
    /\ localBestMarks[2] = << >>
    /\ WinnerKnown(2)
    /\ ret[2].val = 0

\* the solution the final reduction designates: the marks of the lowest
\* holder, or the empty solution
WinnerSolution ==
    IF Holders = {} THEN GolombRuler(<< >>)
    ELSE GolombRuler(localBestMarks[SetMin(Holders)])

\* C14: when the search returns every process holds the same solution: the
\* winner's mark list with length L* on all processes, or the empty
\* solution on all processes if no process found a ruler within L_max.
C14_SameSolutionEverywhere ==
    \A p \in Procs :
        pc[p] = "done" =>
            /\ best[p] = WinnerSolution
            /\ Holders # {} => best[p].length = MinLocalBestLen
            /\ \A q \in Procs : pc[q] = "done" => best[q] = best[p]

\* three processes have returned the ruler of rank 0; rank 1 found another
\* ruler of the same length and rank 2 found none
C14_Witness ==
    /\ AllDone
    /\ size = 3
    /\ Holders = {0, 1}
    /\ localBestMarks[1] # localBestMarks[0]
    /\ localBestMarks[2] = << >>
    /\ best[1].marks = localBestMarks[0]
    /\ best[2].marks = localBestMarks[0]

(***************************************************************************)
(* Claims on the distribution of the prefixes.                             *)
(***************************************************************************)

\* the iterations of the omp for run so far: <<process, position in the
\* process's history>>
Iterations ==
    UNION {{<<p, k>> : k \in 1..Len(handled[p])} : p \in Procs}

\* the iterations that handled `prefix`
JobHandlers(prefix) ==
    {h \in Iterations : handled[h[1]][h[2]].prefix = prefix}

\* the process has left the loop over its own prefixes (line 435)
OwnRoundsDone(p) == pc[p] \notin {"entry", "loop", "parallel", "fold"}

\* the thread is between lines 381 and 398 of an iteration
Busy(th) == th.pcT \in {"check", "visit", "cand", "casload", "cas"}

\* C15 (rank 0 generates its list before any process hands out a prefix):
\* every PrefixJob index i of the generated list is handled exactly
\* once in the whole run: by process i mod P and by no other process, in
\* exactly one of that process's rounds, by exactly one worker thread (an
\* iteration is handed out once, and no two threads are in the same
\* iteration).
C15_EachJobOnce ==
    LET all == generated[0]
    IN  /\ \A i \in 1..Len(all) :
               LET H == JobHandlers(all[i])
               IN  /\ Cardinality(H) <= 1
                   /\ \A h \in H : h[1] = (i - 1) % size
                   /\ OwnRoundsDone((i - 1) % size) => Cardinality(H) = 1
        /\ \A p \in Procs : \A t, u \in Threads :
               (t # u /\ Busy(thr[p][t]) /\ Busy(thr[p][u]))
                   => thr[p][t].idx # thr[p][u].idx

\* rank 0 of two processes runs its two prefixes, indices 0 and 2 of the
\* list, in one round, one on each of its two threads
C15_Witness ==
    /\ size = 2
    /\ numThreads = 2
    /\ Len(generated[0]) = 3
    /\ Len(handled[0]) = 2
    /\ handled[0][1].round = handled[0][2].round
    /\ Busy(thr[0][0])
    /\ Busy(thr[0][1])

(***************************************************************************)
(* Claims on the prefix generation.                                        *)
(***************************************************************************)

\* C16: for fixed n and L_max, prefix generation produces the same list of
\* PrefixJobs in the same order on every process, independently of the
\* process's rank, its thread count and timing.
C16_SamePrefixList ==
    \A p, q \in Procs :
        (gen.pcS = "on" /\ gen.pcG[p] = "generated" /\ gen.pcG[q] = "generated")
            => generated[p] = generated[q]

\* two processes of different thread counts have generated the same
\* non-empty list
C16_Witness ==
    /\ gen.pcS = "on"
    /\ \A p \in Procs : gen.pcG[p] = "generated"
    /\ gen.threads[0] # gen.threads[1]
    /\ Len(generated[0]) > 1
    /\ generated[1] = generated[0]

(***************************************************************************)
(* Claims on the run of one process with one thread.                       *)
(***************************************************************************)

\* C17: with P = 1 and W = 1 the search performs no collective operation
\* (no all-reduce, barrier or broadcast) and returns the same result as the
\* local pool run on its own.
C17_NoCollectiveAlone ==
    (size = 1 /\ numThreads = 1) => \A p \in Procs : coll[p].kind = "none"

(***************************************************************************)
(* Claims on HypercubeMPI::allReduceMin.                                   *)
(***************************************************************************)

\* C18: for P a power of two the hypercube allReduceMin returns on every
\* process the minimum of the values contributed by all P processes after
\* log2(P) exchange steps, the value a standard all-reduce-min returns.
C18_CubeReturnsGlobalMin ==
    \A p \in Procs :
        cube.pcC[p] \in {"fold", "done"}
            => /\ cube.d[p] = dimensions
               /\ cube.globalMin[p] = SetMin({cube.atStart[q] : q \in Procs})

(***************************************************************************)
(* C19                                                                     *)
(***************************************************************************)

\* C19: once a request with n outside [2, 24] or L_max outside [0, 127] has
\* been handled, it has been reported to the caller as invalid and no search
\* has been started for it.  The request is the order the caller asked for
\* and the length bound where the entry point takes one.
C19_InvalidRequestRejected ==
    LET InvalidRequest ==
            \/ req.argN < 2
            \/ req.argN > MAX_MARKS_V3
            \/ /\ req.entry = "searchGolombMPI_V3"
               /\ (req.argMaxLen < 0 \/ req.argMaxLen > MAX_LEN_V3)
    IN  (req.pcR # "called" /\ InvalidRequest)
            => (req.reported /\ req.pcR = "returned")

(***************************************************************************)
(* C20                                                                     *)
(***************************************************************************)

\* C20: for every list of marks with values in [0, 127], isValid returns
\* true exactly when all differences marks[j] - marks[i] with j > i are
\* positive and pairwise distinct.
C20_IsValidExact ==
    LET marks == chk.marks
        Pairs == {pr \in (1..Len(marks)) \X (1..Len(marks)) : pr[1] < pr[2]}
        Diff(pr) == marks[pr[2]] - marks[pr[1]]
        DistinctPositive ==
            /\ \A pr \in Pairs : Diff(pr) > 0
            /\ \A pr \in Pairs, qr \in Pairs : pr # qr => Diff(pr) # Diff(qr)
    IN  chk.pcV = "finished"
            => ((chk.result = "true") <=> DistinctPositive)

(***************************************************************************)
(* SpecBits: the search of Spec, and on one process with one thread the    *)
(* search for n >= 3 under the full bound MAX_LEN_V3, whose prefixes have  *)
(* marks in the high lane of the bitmaps.                                  *)
(***************************************************************************)
InitBits ==
    /\ \/ /\ n \in 2..MaxN
          /\ maxLenArg \in 0..MaxLmax
          /\ size \in 1..(MaxP - 1)
          /\ numThreads \in {1, 2}
          /\ syncInterval \in RoundSizes
       \/ /\ n \in 3..MaxN
          /\ maxLenArg \in {MAX_LEN_V3, MAX_LEN_V3 + 1}
          /\ size = 1
          /\ numThreads = 1
          /\ syncInterval = SYNC_INTERVAL_V3
    /\ boundSync = TRUE
    /\ InitProcs
    /\ sh = Off
    /\ mw = Off
    /\ v4 = Off
    /\ dep = Off
    /\ seq = Off
    /\ cube = Off
    /\ omp = Off
    /\ mpi = Off
    /\ gen = Off
    /\ req = Off
    /\ chk = Off
    /\ explored = Off
    /\ held = Off

SpecBits == InitBits /\ [][Next]_vars

(***************************************************************************)
(* SpecDepth: one call of a prefix-depth function of the repository:       *)
(* computePrefixDepthMPI_V3, computePrefixDepthV5                          *)
(* (src/src/main_mpi_v4.cpp) and computePrefixDepthMPI_V4                  *)
(* (src/unnamed/part_006).                                                 *)
(***************************************************************************)
computePrefixDepthV5(nn, threads) ==
    LET depth1 == IF 5 >= nn - 2 THEN nn - 3 ELSE 5
    IN  IF nn <= 6 THEN 2
        ELSE IF nn <= 8 THEN 3
        ELSE IF nn <= 10 THEN 3
        ELSE IF nn <= 12 THEN 4
        ELSE IF nn <= 14 THEN 4
        ELSE IF nn <= 16 THEN 5
        ELSE IF depth1 < 2 THEN 2 ELSE depth1

computePrefixDepthMPI_V4(nn, numProcesses) ==
    LET depth0 == IF numProcesses > 16 THEN 6 ELSE 5
        depth1 == IF depth0 >= nn - 2 THEN nn - 3 ELSE depth0
    IN  IF nn <= 6 THEN 2
        ELSE IF nn <= 8 THEN 3
        ELSE IF nn <= 10 THEN 3
        ELSE IF nn <= 12 THEN 4
        ELSE IF nn <= 14 THEN 4
        ELSE IF nn <= 16 THEN 5
        ELSE IF depth1 < 2 THEN 2 ELSE depth1

DepthFunctions ==
    {"computePrefixDepthMPI_V3", "computePrefixDepthV5",
     "computePrefixDepthMPI_V4"}

\* process counts on both sides of the tests numProcesses > 16 and
\* totalWorkers > 64
DepthProcs == {1, 2, 16, 17, 65}

InitDepth ==
    /\ n \in 2..MAX_MARKS_V3
    /\ maxLenArg = MAX_LEN_V3
    /\ size \in DepthProcs
    /\ numThreads \in ThreadCounts
    /\ syncInterval = SYNC_INTERVAL_V3
    /\ boundSync = TRUE
    /\ InitProcs
    /\ sh = Off
    /\ mw = Off
    /\ v4 = Off
    /\ seq = Off
    /\ cube = Off
    /\ omp = Off
    /\ mpi = Off
    /\ gen = Off
    /\ req = Off
    /\ chk = Off
    /\ explored = Off
    /\ held = Off
    /\ \E f \in DepthFunctions :
           dep = [pcS |-> "on", function |-> f, pcD |-> "called", depth |-> 0]

\* the workers the depth is chosen for: processes times threads in V3, the
\* processes in V4, the threads in V5
DepthWorkers ==
    IF dep.function = "computePrefixDepthMPI_V3" THEN size * numThreads
    ELSE IF dep.function = "computePrefixDepthMPI_V4" THEN size
    ELSE numThreads

CallDepth ==
    /\ dep.pcS = "on"
    /\ dep.pcD = "called"
    /\ dep' = [dep EXCEPT
           !.pcD = "returned",
           !.depth =
               IF dep.function = "computePrefixDepthMPI_V3"
               THEN computePrefixDepthMPI_V3(n, size, numThreads)
               ELSE IF dep.function = "computePrefixDepthV5"
               THEN computePrefixDepthV5(n, numThreads)
               ELSE computePrefixDepthMPI_V4(n, size)]
    /\ UNCHANGED <<inputs, procVars, thr, handled, generated, explored, held, seq, cube, omp, mpi, gen, req, chk, v4, mw, sh>>

NextDepth == CallDepth

SpecDepth == InitDepth /\ [][NextDepth]_vars

(***************************************************************************)
(* SpecSeqV4: searchGolombSequentialV4WithBound (src/unnamed/part_010),    *)
(* whose kernel also skips the leaves whose first mark is not smaller than *)
(* the last gap, next to searchGolombSequentialV2.  BitSet128V4 has the    *)
(* operations of BitSet128_V3.                                             *)
(***************************************************************************)
MAX_LEN_V4 == 127

StackFrameV4(rm, ud, mc, len, nc, fm) ==
    [reversed_marks |-> rm, used_dist |-> ud, marks_count |-> mc,
     ruler_length |-> len, next_candidate |-> nc, first_mark |-> fm]

extractMarksV4(reversed_marks, ruler_length) ==
    ExtractFrom(reversed_marks, ruler_length, 0)

\* a test that also skips the leaves whose last gap exceeds the first mark
\* by one
MirrorSkipped_OneEarly(first_mark, lastGap) == first_mark + 1 >= lastGap

\* line 165: the leaf is taken for the mirror of another one
MirrorSkipped(first_mark, lastGap) == first_mark >= lastGap

\* the bounds of the model, and bounds around the shortest ruler of five
\* marks, of length 11
SeqBounds == (0..MaxLmax) \cup {10, 11, 12}

InitSeqV4 ==
    /\ n \in 2..(MaxN + 1)
    /\ maxLenArg \in SeqBounds
    /\ size = 1
    /\ numThreads = 1
    /\ syncInterval = SYNC_INTERVAL_V3
    /\ boundSync = TRUE
    /\ InitProcs
    /\ sh = Off
    /\ mw = Off
    /\ v4 = Off
    /\ dep = Off
    /\ \E entry \in {"entry", "entry4"} :
           seq = [pcS |-> entry, firstMark |-> 0, stack |-> << >>, pos |-> 0,
                  max_pos |-> 0, bestLen |-> 0, bestMarks |-> << >>,
                  best |-> GolombRuler(<< >>)]
    /\ cube = Off
    /\ omp = Off
    /\ mpi = Off
    /\ gen = Off
    /\ req = Off
    /\ chk = Off
    /\ explored = Off
    /\ held = Off

\* lines 211-234: clamp, trivial cases, initial search state
Seq4Entry ==
    /\ seq.pcS = "entry4"
    /\ LET initialBound == IF maxLenArg > MAX_LEN_V4 THEN MAX_LEN_V4
                           ELSE maxLenArg
       IN  IF n <= 1
           THEN SeqStep([seq EXCEPT !.best = [marks |-> <<0>>, length |-> 0],
                                    !.pcS = "done"])
           ELSE IF n = 2
           THEN SeqStep([seq EXCEPT !.best = [marks |-> <<0, 1>>, length |-> 1],
                                    !.pcS = "done"])
           ELSE SeqStep([seq EXCEPT !.bestLen = initialBound + 1,
                                    !.bestMarks = << >>,
                                    !.firstMark = 1,
                                    !.pcS = "branch4"])

\* lines 239-256: the loop over the first mark; lines 258-263 at its end
Seq4Branch ==
    /\ seq.pcS = "branch4"
    /\ LET firstMark == seq.firstMark
           frame0 == StackFrameV4(BitSet(BitSet(EmptyBits, 0), firstMark),
                                  BitSet(EmptyBits, firstMark), 2, firstMark,
                                  0, firstMark)
       IN  IF firstMark <= seq.bestLen \div 2 /\ firstMark < seq.bestLen
           THEN SeqStep([seq EXCEPT !.stack = <<frame0>>, !.pcS = "visit4"])
           ELSE SeqStep([seq EXCEPT !.best = GolombRuler(seq.bestMarks),
                                    !.pcS = "done"])

\* stackTop--; backtrackIterativeV4 returns when the stack is empty
Seq4Pop(st) ==
    LET s == SubSeq(st.stack, 1, Len(st.stack) - 1)
    IN  IF s = << >>
        THEN [st EXCEPT !.stack = s, !.firstMark = @ + 1, !.pcS = "branch4"]
        ELSE [st EXCEPT !.stack = s, !.pcS = "visit4"]

\* ++pos; without a pushed child the frame is popped
Seq4NextCandidate(st) ==
    IF st.pos + 1 > st.max_pos THEN Seq4Pop(st)
    ELSE [st EXCEPT !.pos = st.pos + 1, !.pcS = "cand4"]

\* lines 115-139: top of the while loop; cachedBestLen is the kernel's
\* localBestLen, which is assigned together with state.bestLen
Seq4Visit ==
    /\ seq.pcS = "visit4"
    /\ LET frame == seq.stack[Len(seq.stack)]
           cachedBestLen == seq.bestLen
           r == n - frame.marks_count
           minAdditionalLength == (r * (r + 1)) \div 2
           min_pos == frame.ruler_length + 1
           max_remaining == ((r - 1) * r) \div 2
           max_pos == cachedBestLen - max_remaining - 1
           startNext == IF frame.next_candidate = 0 THEN min_pos
                        ELSE frame.next_candidate
       IN  IF frame.ruler_length + minAdditionalLength >= cachedBestLen
           THEN SeqStep(Seq4Pop(seq))
           ELSE IF startNext > max_pos
           THEN SeqStep(Seq4Pop(seq))
           ELSE SeqStep([seq EXCEPT !.pos = startNext, !.max_pos = max_pos,
                                    !.pcS = "cand4"])

\* lines 141-198: one iteration of the for loop
Seq4Candidate ==
    /\ seq.pcS = "cand4"
    /\ LET top == Len(seq.stack)
           frame == seq.stack[top]
           cachedBestLen == seq.bestLen
           pos == seq.pos
           offset == pos - frame.ruler_length
           new_dist == ShiftLeft(frame.reversed_marks, offset)
           newMarksCount == frame.marks_count + 1
           lastGap == pos - frame.ruler_length
           final_marks == BitSet(new_dist, 0)
           newFrame == StackFrameV4(BitSet(new_dist, 0),
                                    BitXor(frame.used_dist, new_dist),
                                    newMarksCount, pos, 0, frame.first_mark)
       IN  IF pos >= cachedBestLen
           THEN SeqStep(Seq4Pop(seq))
           ELSE IF BitAny(BitAnd(new_dist, frame.used_dist))
           THEN SeqStep(Seq4NextCandidate(seq))
           ELSE IF newMarksCount = n
           THEN IF MirrorSkipped(frame.first_mark, lastGap)
                THEN SeqStep(Seq4NextCandidate(seq))
                ELSE SeqStep(Seq4NextCandidate(
                         [seq EXCEPT !.bestLen = pos,
                                     !.bestMarks = extractMarksV4(final_marks, pos)]))
           ELSE SeqStep([seq EXCEPT
                    !.stack = Append(
                        [seq.stack EXCEPT ![top].next_candidate = pos + 1],
                        newFrame),
                    !.pcS = "visit4"])

NextSeqV4 ==
    \/ Seq4Entry
    \/ Seq4Branch
    \/ Seq4Visit
    \/ Seq4Candidate
    \/ NextSeqV2

SpecSeqV4 == InitSeqV4 /\ [][NextSeqV4]_vars

(***************************************************************************)
(* SpecV4: searchGolombMPI_V4 (src/unnamed/part_006): the greedy bound,    *)
(* the search of a single process, and on two or more processes the        *)
(* master handing prefixes to the workers that request them.  A worker     *)
(* runs the kernel on one thread, so a kernel run is one step.             *)
(* BitSet128_V4 has the operations of BitSet128_V3.                        *)
(***************************************************************************)
TAG_REQUEST_WORK == 1
TAG_WORK_ASSIGNMENT == 2
TAG_GLOBAL_BOUND == 3
TAG_NO_MORE_WORK == 4

\* lines 125-164: marks at the smallest free positions below maxLen; the
\* value is the ruler as a sequence, << >> when fewer than nn marks fit
RECURSIVE GreedyFrom(_, _, _, _, _, _)
GreedyFrom(pos, nn, bound, reversed_marks, used_dist, marks) ==
    IF ~(Len(marks) < nn /\ pos < bound) THEN marks
    ELSE LET rulerLength == marks[Len(marks)]
             offset == pos - rulerLength
             new_dist == ShiftLeft(reversed_marks, offset)
         IN  IF BitAny(BitAnd(new_dist, used_dist))
             THEN GreedyFrom(pos + 1, nn, bound, reversed_marks, used_dist, marks)
             ELSE GreedyFrom(pos + 1, nn, bound,
                      BitSet(ShiftLeft(reversed_marks, offset), 0),
                      BitXor(used_dist, new_dist), Append(marks, pos))

\* greedyMarks (greedyNumMarks is its length) and the returned length
greedySolve(nn, bound) ==
    LET marks == GreedyFrom(1, nn, bound, BitSet(EmptyBits, 0), EmptyBits, <<0>>)
    IN  IF Len(marks) = nn
        THEN [marks |-> marks, len |-> marks[Len(marks)]]
        ELSE [marks |-> << >>, len |-> bound + 1]

\* the bound and the best of the thread a kernel runs on
ThreadBestMPI_V4(bound, bestLen, bestMarks) ==
    [bound |-> bound, bestLen |-> bestLen, bestMarks |-> bestMarks]

\* lines 204-297, backtrackIterativeMPI_V4 on one thread: the value is the
\* bound and the thread's best once `frame` and all it pushes are popped.
\* KernelScan is the for loop from pos on, KernelVisit an iteration of the
\* while loop with `frame` on top.
RECURSIVE KernelVisit(_, _, _)
RECURSIVE KernelScan(_, _, _, _, _)

\* the value of an operator at arguments that are computed once, before it
\* is applied
At(values) == CHOOSE v \in values : TRUE

ScanFrom(frame, pos, max_pos, nn, tb) ==
    IF pos > max_pos \/ pos >= tb.bound THEN tb
    ELSE LET offset == pos - frame.ruler_length
             new_dist == ShiftLeft(frame.reversed_marks, offset)
             newMarksCount == frame.marks_count + 1
             final_marks == BitSet(ShiftLeft(frame.reversed_marks, offset), 0)
             newFrame == StackFrameMPI_V3(
                             BitSet(ShiftLeft(frame.reversed_marks, offset), 0),
                             BitXor(frame.used_dist, new_dist),
                             newMarksCount, pos, 0)
         IN  IF BitAny(BitAnd(new_dist, frame.used_dist))
             THEN KernelScan(frame, pos + 1, max_pos, nn, tb)
             ELSE IF newMarksCount = nn
             THEN IF pos < tb.bestLen
                  THEN KernelScan(frame, pos + 1, max_pos, nn,
                           ThreadBestMPI_V4(Min2(tb.bound, pos), pos,
                               extractMarksMPI_V3(final_marks, pos)))
                  ELSE KernelScan(frame, pos + 1, max_pos, nn, tb)
             ELSE KernelVisit([frame EXCEPT !.next_candidate = pos + 1], nn,
                      KernelVisit(newFrame, nn, tb))

KernelScan(frame, pos, max_pos, nn, tb) ==
    At({ScanFrom(a[1], a[2], max_pos, nn, a[3]) : a \in {<<frame, pos, tb>>}})

VisitFrame(frame, nn, tb) ==
    LET r == nn - frame.marks_count
        minAdditionalLength == (r * (r + 1)) \div 2
        max_remaining == ((r - 1) * r) \div 2
        max_pos == tb.bound - max_remaining - 1
        startNext == IF frame.next_candidate = 0 THEN frame.ruler_length + 1
                     ELSE frame.next_candidate
    IN  IF frame.ruler_length + minAdditionalLength >= tb.bound THEN tb
        ELSE KernelScan(frame, startNext, max_pos, nn, tb)

KernelVisit(frame, nn, tb) ==
    At({VisitFrame(a[1], nn, a[2]) : a \in {<<frame, tb>>}})


\* PrefixState of lines 313-319 and 578-584
PrefixStateV4(rm, ud, mc, len, np) ==
    [reversed_marks |-> rm, used_dist |-> ud, marks_count |-> mc,
     ruler_length |-> len, next_pos |-> np]

\* lines 387-394 (and 633-640): the first position from pos to max_pos
\* that repeats no difference, 0 when there is none
RECURSIVE NextChildPos(_, _, _)
NextChildPos(state, pos, max_pos) ==
    IF pos > max_pos THEN 0
    ELSE IF BitAny(BitAnd(ShiftLeft(state.reversed_marks,
                                    pos - state.ruler_length),
                          state.used_dist))
    THEN NextChildPos(state, pos + 1, max_pos)
    ELSE pos

\* lines 354-418 (and 605-656) with a fixed bound: the iterations of the
\* generation loop up to the next prefix of prefixDepth + 1 marks on top
\* of genStack, or to the empty genStack
RECURSIVE NextPrefixV4(_, _, _, _)
PrefixFrom(genStack, bound, nn, prefixDepth) ==
    IF genStack = << >> THEN genStack
    ELSE LET top == Len(genStack)
             state == genStack[top]
             r == nn - state.marks_count
             max_remaining == ((r - 1) * r) \div 2
             max_pos == bound - max_remaining - 1
             pos == NextChildPos(state, state.next_pos, max_pos)
             offset == pos - state.ruler_length
             new_dist == ShiftLeft(state.reversed_marks, offset)
             newState == PrefixStateV4(
                             BitSet(ShiftLeft(state.reversed_marks, offset), 0),
                             BitXor(state.used_dist, new_dist),
                             state.marks_count + 1, pos, pos + 1)
         IN  IF state.marks_count = prefixDepth + 1 THEN genStack
             ELSE IF pos = 0
             THEN NextPrefixV4(SubSeq(genStack, 1, top - 1), bound, nn,
                               prefixDepth)
             ELSE NextPrefixV4(
                      Append([genStack EXCEPT ![top].next_pos = pos + 1],
                             newState),
                      bound, nn, prefixDepth)

NextPrefixV4(genStack, bound, nn, prefixDepth) ==
    At({PrefixFrom(a[1], a[2], nn, prefixDepth) : a \in {<<genStack, bound>>}})

\* lines 587-594 and 322-330: one mark, at 0
InitialPrefix ==
    <<PrefixStateV4(BitSet(EmptyBits, 0), EmptyBits, 1, 0, 1)>>

\* lines 365-370 and 490-497: the kernel's first frame for a prefix
FrameOfPrefix(state) ==
    StackFrameMPI_V3(state.reversed_marks, state.used_dist,
                     state.marks_count, state.ruler_length, 0)

\* lines 608-626 and 479-499: a prefix is searched unless its lower bound
\* reaches the bound
ProcessPrefix(state, nn, tb) ==
    LET remaining == nn - state.marks_count
        minAdditional == (remaining * (remaining + 1)) \div 2
    IN  IF state.ruler_length + minAdditional < tb.bound
        THEN KernelVisit(FrameOfPrefix(state), nn, tb)
        ELSE tb

\* lines 604-660: the loop of the single process from genStack on
RECURSIVE SingleSearch(_, _, _, _)
SingleSearch(genStack, nn, prefixDepth, tb) ==
    LET gs == NextPrefixV4(genStack, tb.bound, nn, prefixDepth)
    IN  IF gs = << >> THEN tb
        ELSE SingleSearch(SubSeq(gs, 1, Len(gs) - 1), nn, prefixDepth,
                          ProcessPrefix(gs[Len(gs)], nn, tb))


\* maxLen after the clamp of lines 524-526
maxLenV4 == IF maxLenArg > MAX_LEN_V4 THEN MAX_LEN_V4 ELSE maxLenArg

\* a message of tag `tag` carrying an int or a work item
MessageV4(tag, val, work) == [tag |-> tag, val |-> val, work |-> work]

NoWork == PrefixStateV4(EmptyBits, EmptyBits, 0, 0, 0)

\* n = 4 has its greedy ruler 0 1 3 7 below the bounds 8 and 9 only
V4Bounds == (0..MaxLmax) \cup {8, 9}

\* Every rank is at the call of greedySolve (line 538).  up[w] holds the
\* messages worker w has sent to rank 0 and rank 0 has not received,
\* down[w] those rank 0 has sent to w, both in sending order.  requests,
\* answers and finishes count what a worker has sent and received.
InitV4 ==
    /\ n \in 2..MaxN
    /\ maxLenArg \in V4Bounds
    /\ size \in 1..MaxP
    /\ numThreads = 1
    /\ syncInterval = SYNC_INTERVAL_V3
    /\ boundSync = TRUE
    /\ InitProcs
    /\ sh = Off
    /\ mw = Off
    /\ v4 = [pcS |-> "on",
             pcR |-> [r \in Procs |-> "greedy"],
             greedy |-> [r \in Procs |-> [marks |-> << >>, len |-> 0]],
             globalBound |-> [r \in Procs |-> 0],
             globalBestLen |-> [r \in Procs |-> 0],
             localBest |-> [r \in Procs |-> [len |-> 0, marks |-> << >>]],
             genStack |-> << >>,
             workersFinished |-> 0,
             threadBest |-> ThreadBestMPI_V4(0, 0, << >>),
             work |-> [r \in Procs |-> NoWork],
             up |-> [r \in Procs |-> << >>],
             down |-> [r \in Procs |-> << >>],
             requests |-> [r \in Procs |-> 0],
             answers |-> [r \in Procs |-> 0],
             finishes |-> [r \in Procs |-> 0],
             best |-> [r \in Procs |-> GolombRuler(<< >>)]]
    /\ dep = Off
    /\ seq = Off
    /\ cube = Off
    /\ omp = Off
    /\ mpi = Off
    /\ gen = Off
    /\ req = Off
    /\ chk = Off
    /\ explored = Off
    /\ held = Off

V4Step(new) ==
    /\ v4.pcS = "on"
    /\ v4' = new
    /\ UNCHANGED <<inputs, procVars, thr, handled, generated, explored, held, seq, cube, omp, mpi, gen, req, chk, dep, mw, sh>>

\* lines 537-544: the greedy ruler and the bound it gives, up to the call
\* of MPI_Allreduce
V4Greedy(r) ==
    /\ v4.pcS = "on"
    /\ v4.pcR[r] = "greedy"
    /\ LET g == greedySolve(n, maxLenV4)
       IN  V4Step([v4 EXCEPT
               !.greedy[r] = g,
               !.globalBound[r] =
                   IF Len(g.marks) = n /\ g.len < maxLenV4 + 1
                   THEN g.len ELSE maxLenV4 + 1,
               !.pcR[r] = "allreduce"])

\* the local best a rank leaves lines 562-571 with
GreedyKept(g, bound) ==
    IF Len(g.marks) = n /\ g.len <= bound
    THEN [len |-> g.len, marks |-> g.marks]
    ELSE [len |-> bound, marks |-> << >>]

\* lines 547-571 and the entry of the three branches (573-602, 672, 684 with
\* 439-441): MPI_Allreduce returns on every rank once every rank has called
\* it; a worker starts from the bound with no ruler
V4Allreduce ==
    /\ v4.pcS = "on"
    /\ \A r \in Procs : v4.pcR[r] = "allreduce"
    /\ LET minGreedyLen == SetMin({v4.globalBound[r] : r \in Procs})
       IN  V4Step([v4 EXCEPT
               !.globalBound = [r \in Procs |-> minGreedyLen],
               !.globalBestLen = [r \in Procs |-> minGreedyLen],
               !.localBest = [r \in Procs |->
                   IF size > 1 /\ r # 0
                   THEN [len |-> minGreedyLen, marks |-> << >>]
                   ELSE GreedyKept(v4.greedy[r], minGreedyLen)],
               !.genStack = InitialPrefix,
               !.threadBest = ThreadBestMPI_V4(minGreedyLen, minGreedyLen, << >>),
               !.pcR = [r \in Procs |->
                   IF size = 1 THEN "single"
                   ELSE IF r = 0 THEN "master" ELSE "request"]])


\* lines 604-669: one iteration of the single process's loop that ends at a
\* prefix or at the empty genStack, and then the merge of lines 662-668
V4Single ==
    /\ v4.pcS = "on"
    /\ v4.pcR[0] = "single"
    /\ LET tb == v4.threadBest
           gs == NextPrefixV4(v4.genStack, tb.bound, n,
                              computePrefixDepthMPI_V4(n, size))
       IN  IF gs = << >>
           THEN V4Step([v4 EXCEPT
                    !.genStack = gs,
                    !.localBest[0] =
                        IF tb.bestMarks # << >> /\ tb.bestLen < v4.localBest[0].len
                        THEN [len |-> tb.bestLen, marks |-> tb.bestMarks]
                        ELSE @,
                    !.pcR[0] = "barrier"])
           ELSE V4Step([v4 EXCEPT
                    !.genStack = SubSeq(gs, 1, Len(gs) - 1),
                    !.threadBest = ProcessPrefix(gs[Len(gs)], n, tb)])

\* line 338: the master's loop goes on while a worker has not been told to
\* finish
MasterLoops_OneEarly(workersFinished) == workersFinished < size - 2

MasterLoops(workersFinished) == workersFinished < size - 1

\* lines 338-424: the master receives the request of worker w, lowers its
\* bound, and sends the next prefix after the bound, or the end of the
\* work.  A standard-mode send of so small a message is buffered.
V4MasterServe(w) ==
    /\ v4.pcS = "on"
    /\ v4.pcR[0] = "master"
    /\ MasterLoops(v4.workersFinished)
    /\ w \in Procs \ {0}
    /\ v4.up[w] # << >>
    /\ LET workerBound == Head(v4.up[w]).val
           globalBound == Min2(workerBound, v4.globalBound[0])
           gs == NextPrefixV4(v4.genStack, globalBound, n,
                              computePrefixDepthMPI_V4(n, size))
       IN  IF gs # << >>
           THEN V4Step([v4 EXCEPT
                    !.up[w] = Tail(@),
                    !.globalBound[0] = globalBound,
                    !.genStack = SubSeq(gs, 1, Len(gs) - 1),
                    !.down[w] = @ \o
                        <<MessageV4(TAG_GLOBAL_BOUND, globalBound, NoWork),
                          MessageV4(TAG_WORK_ASSIGNMENT, 0, gs[Len(gs)])>>])
           ELSE V4Step([v4 EXCEPT
                    !.up[w] = Tail(@),
                    !.globalBound[0] = globalBound,
                    !.genStack = gs,
                    !.down[w] = Append(@,
                        MessageV4(TAG_NO_MORE_WORK, globalBound, NoWork)),
                    !.workersFinished = @ + 1])

\* lines 338 and 673-682: the loop ends with every worker told to finish;
\* the master's local best is the greedy ruler when there is one
V4MasterReturn ==
    /\ v4.pcS = "on"
    /\ v4.pcR[0] = "master"
    /\ ~MasterLoops(v4.workersFinished)
    /\ V4Step([v4 EXCEPT
           !.localBest[0] =
               IF Len(v4.greedy[0].marks) = n
               THEN [len |-> v4.greedy[0].len, marks |-> v4.greedy[0].marks]
               ELSE @,
           !.pcR[0] = "barrier"])

\* lines 451-454: a worker sends its bound as a request
V4Request(w) ==
    /\ v4.pcS = "on"
    /\ v4.pcR[w] = "request"
    /\ V4Step([v4 EXCEPT
           !.up[w] = Append(@, MessageV4(TAG_REQUEST_WORK,
                                         v4.globalBestLen[w], NoWork)),
           !.requests[w] = @ + 1,
           !.pcR[w] = "recvBound"])

\* lines 456-471: the receive with MPI_ANY_TAG takes the first message from
\* rank 0, whatever its tag.  A work item does not fit the one int of the
\* buffer: the worker is then "mismatched".
V4RecvBound(w) ==
    /\ v4.pcS = "on"
    /\ v4.pcR[w] = "recvBound"
    /\ v4.down[w] # << >>
    /\ LET m == Head(v4.down[w])
       IN  IF m.tag = TAG_NO_MORE_WORK
           THEN V4Step([v4 EXCEPT
                    !.down[w] = Tail(@),
                    !.answers[w] = @ + 1,
                    !.finishes[w] = @ + 1,
                    !.pcR[w] = "barrier"])
           ELSE IF m.tag = TAG_GLOBAL_BOUND
           THEN V4Step([v4 EXCEPT
                    !.down[w] = Tail(@),
                    !.answers[w] = @ + 1,
                    !.globalBestLen[w] = Min2(m.val, @),
                    !.pcR[w] = "recvWork"])
           ELSE V4Step([v4 EXCEPT
                    !.down[w] = Tail(@),
                    !.pcR[w] = "mismatched"])

\* the index of the first message of tag `tag` in ch, 0 when there is none
FirstOfTag(ch, tag) ==
    IF \E i \in 1..Len(ch) : ch[i].tag = tag
    THEN SetMin({i \in 1..Len(ch) : ch[i].tag = tag})
    ELSE 0

\* ch without its i-th message
Without(ch, i) == SubSeq(ch, 1, i - 1) \o SubSeq(ch, i + 1, Len(ch))

\* lines 473-515: the receive of the work item, the kernel on the
\* worker's one thread from the worker's bound, and the local best
V4RecvWork(w) ==
    /\ v4.pcS = "on"
    /\ v4.pcR[w] = "recvWork"
    /\ FirstOfTag(v4.down[w], TAG_WORK_ASSIGNMENT) # 0
    /\ LET i == FirstOfTag(v4.down[w], TAG_WORK_ASSIGNMENT)
           currentBound == v4.globalBestLen[w]
           tb == ProcessPrefix(v4.down[w][i].work, n,
                     ThreadBestMPI_V4(currentBound, currentBound, << >>))
       IN  V4Step([v4 EXCEPT
               !.down[w] = Without(@, i),
               !.work[w] = v4.down[w][i].work,
               !.globalBestLen[w] = tb.bound,
               !.localBest[w] =
                   IF tb.bestMarks # << >> /\ tb.bestLen < @.len
                   THEN [len |-> tb.bestLen, marks |-> tb.bestMarks]
                   ELSE @,
               !.pcR[w] = "request"])

\* lines 689-722: the barrier and the reductions return on every rank once
\* every rank has called them; the winner is the lowest rank that holds a
\* ruler of the smallest length
V4Final ==
    /\ v4.pcS = "on"
    /\ \A r \in Procs : v4.pcR[r] = "barrier"
    /\ LET globalMinLenV4 == SetMin({v4.localBest[r].len : r \in Procs})
           hasWinnerV4 == [r \in Procs |->
               IF v4.localBest[r].len = globalMinLenV4
                  /\ v4.localBest[r].marks # << >>
               THEN r ELSE size]
           globalWinner == SetMin({hasWinnerV4[r] : r \in Procs})
       IN  V4Step([v4 EXCEPT
               !.best = [r \in Procs |->
                   IF globalWinner < size
                   THEN GolombRuler(v4.localBest[globalWinner].marks)
                   ELSE GolombRuler(<< >>)],
               !.pcR = [r \in Procs |-> "returned"]])

NextV4 ==
    \/ \E r \in Procs : V4Greedy(r)
    \/ V4Allreduce
    \/ V4Single
    \/ \E w \in Procs : V4MasterServe(w)
    \/ V4MasterReturn
    \/ \E w \in Procs : V4Request(w)
    \/ \E w \in Procs : V4RecvBound(w)
    \/ \E w \in Procs : V4RecvWork(w)
    \/ V4Final

SpecV4 == InitV4 /\ [][NextV4]_vars

\* every step that can be taken is eventually taken: no rank stops between
\* two of its statements, and a message sent is delivered
SpecV4Live == SpecV4 /\ WF_vars(NextV4)

(***************************************************************************)
(* SpecMW: searchGolombMPI on two or more processes (src/src/              *)
(* search_mpi.cpp lines 290-433): rank 0 keeps a queue of first marks,     *)
(* the other ranks take one at a time, search it with processBranch on     *)
(* one thread, and send the result back.  A message is in the channel of   *)
(* its worker from its send to its receive.                                *)
(***************************************************************************)
TAG_WORK_ASSIGN == 1
TAG_RESULT == 2
TAG_BEST_UPDATE == 3
TAG_TERMINATE == 4

\* SearchState on the one thread of a worker, with the worker's
\* globalBestLen as glob
BranchState(marks, usedDiffs, bestLen, glob) ==
    [marks |-> marks, usedDiffs |-> usedDiffs,
     diffs |-> [i \in 1..MAX_MARKS |-> 0], bestLen |-> bestLen,
     bestNumMarks |-> 0, bestMarks |-> << >>, glob |-> glob]

\* lines 67-147, backtrackMPI on one thread: the state it returns with.
\* BranchLoop is its for loop from `next` on.
RECURSIVE backtrackMPI(_, _)
RECURSIVE BranchLoop(_, _, _, _, _, _)

BranchLoop(st, next, maxNext, effectiveBest, numMarks, nn) ==
    LET c == CheckDiffs(st.marks, st.usedDiffs, st.diffs, next, 1, 0)
        applied == {c.diffs[i] : i \in 1..c.numNewDiffs}
        placed == [st EXCEPT !.diffs = c.diffs,
                             !.usedDiffs = @ \cup applied,
                             !.marks = Append(@, next)]
        back == IF next < effectiveBest THEN backtrackMPI(placed, nn)
                ELSE placed
        undone == [back EXCEPT
                      !.marks = SubSeq(@, 1, numMarks),
                      !.usedDiffs = @ \ {back.diffs[i] : i \in 1..c.numNewDiffs}]
    IN  IF next > maxNext THEN st
        ELSE IF ~c.valid
        THEN BranchLoop([st EXCEPT !.diffs = c.diffs], next + 1, maxNext,
                        effectiveBest, numMarks, nn)
        ELSE BranchLoop(undone, next + 1, maxNext, effectiveBest, numMarks, nn)

backtrackMPI(st, nn) ==
    LET numMarks == Len(st.marks)
        newLen == st.marks[nn]
        effectiveBest == Min2(st.bestLen, st.glob)
        maxNext == Min2(effectiveBest, MAX_DIFF - 1)
    IN  IF numMarks = nn
        THEN [st EXCEPT !.bestLen = newLen,
                        !.bestNumMarks = nn,
                        !.bestMarks = st.marks,
                        !.glob = Min2(newLen, @)]
        ELSE BranchLoop(st, st.marks[numMarks] + 1, maxNext, effectiveBest,
                        numMarks, nn)

\* lines 177-201: the omp for over the second mark, on one thread
RECURSIVE SecondLoop(_, _, _, _, _)
SecondLoop(st, branchStart, second, maxSecond, nn) ==
    LET d1 == second
        d2 == second - branchStart
    IN  IF ~(second < maxSecond) THEN st
        ELSE IF second >= st.glob \/ d1 = branchStart
        THEN SecondLoop(st, branchStart, second + 1, maxSecond, nn)
        ELSE SecondLoop(
                 backtrackMPI([st EXCEPT
                                  !.usedDiffs = {branchStart, d1, d2},
                                  !.marks = <<0, branchStart, second>>], nn),
                 branchStart, second + 1, maxSecond, nn)

\* lines 150-221, processBranch on one thread: resultBestLen,
\* resultBestMarks and the globalBestLen it leaves
BranchResult(branchStart, nn, glob) ==
    LET maxSecond == Min2(glob, MAX_DIFF - 1)
        st == SecondLoop(BranchState(<<0, branchStart>>, {}, glob, glob),
                         branchStart, branchStart + 1, maxSecond, nn)
    IN  IF st.bestNumMarks > 0 /\ st.bestLen < glob
        THEN [len |-> st.bestLen, marks |-> st.bestMarks, glob |-> st.glob]
        ELSE [len |-> glob, marks |-> << >>, glob |-> st.glob]


\* a message: the tag it is matched by, what it was sent as, its ints
MessageMW(tag, sent, data) == [tag |-> tag, sent |-> sent, data |-> data]

\* what an int that was never written can hold
Indeterminate == {-1, 0, MaxLmax}

WorkersMW == Procs \ {0}

\* every rank is at its first statement after line 254; bestLen and
\* globalBestLen are maxLen on every rank
InitMW ==
    /\ n \in 3..MaxN
    /\ maxLenArg \in 2..MaxLmax
    /\ size \in 2..MaxP
    /\ numThreads = 1
    /\ syncInterval = SYNC_INTERVAL_V3
    /\ boundSync = TRUE
    /\ InitProcs
    /\ sh = Off
    /\ mw = [pcS |-> "on",
             pcM |-> "start",
             bestLen |-> maxLenArg,
             bestMarks |-> << >>,
             workQueue |-> << >>,
             activeWorkers |-> 0,
             source |-> 0,
             recvBuf |-> << >>,
             pcW |-> [w \in WorkersMW |-> "probe"],
             globalBestLen |-> [w \in WorkersMW |-> maxLenArg],
             up |-> [w \in WorkersMW |-> << >>],
             down |-> [w \in WorkersMW |-> << >>],
             updateAsWork |-> [w \in WorkersMW |-> FALSE],
             marksAsHeader |-> FALSE,
             headerAsMarks |-> FALSE]
    /\ v4 = Off
    /\ dep = Off
    /\ seq = Off
    /\ cube = Off
    /\ omp = Off
    /\ mpi = Off
    /\ gen = Off
    /\ req = Off
    /\ chk = Off
    /\ explored = Off
    /\ held = Off

MWStep(new) ==
    /\ mw.pcS = "on"
    /\ mw' = new
    /\ UNCHANGED <<inputs, procVars, thr, handled, generated, explored, held, seq, cube, omp, mpi, gen, req, chk, dep, v4, sh>>

\* the first marks from..to in increasing order
RECURSIVE Branches(_, _)
Branches(from, to) ==
    IF from > to THEN << >> ELSE <<from>> \o Branches(from + 1, to)

\* lines 294-311: the queue of branches, and one branch for each worker
\* while there are some
MWStart ==
    /\ mw.pcS = "on"
    /\ mw.pcM = "start"
    /\ LET queue == Branches(1, maxLenArg - 1)
           served == Min2(size - 1, Len(queue))
       IN  MWStep([mw EXCEPT
               !.workQueue = SubSeq(queue, served + 1, Len(queue)),
               !.activeWorkers = size - 1,
               !.down = [w \in WorkersMW |->
                   IF w <= served
                   THEN <<MessageMW(TAG_WORK_ASSIGN, "work",
                                    <<queue[w], mw.bestLen>>)>>
                   ELSE << >>],
               !.pcM = "recv"])

\* lines 350-353
RECURSIVE PruneQueue(_, _)
PruneQueue(queue, bestLen) ==
    IF queue # << >> /\ Head(queue) >= bestLen
    THEN PruneQueue(Tail(queue), bestLen)
    ELSE queue

\* lines 349-366: the queue is pruned and `source` gets the next branch or
\* is told to terminate; m is the master's state at line 349
AssignNext(m) ==
    LET queue == PruneQueue(m.workQueue, m.bestLen)
    IN  IF queue # << >>
        THEN [m EXCEPT
                 !.workQueue = Tail(queue),
                 !.down[m.source] = Append(@,
                     MessageMW(TAG_WORK_ASSIGN, "work",
                               <<Head(queue), m.bestLen>>)),
                 !.pcM = "recv"]
        ELSE [m EXCEPT
                 !.workQueue = queue,
                 !.down[m.source] = Append(@,
                     MessageMW(TAG_TERMINATE, "terminate", << >>)),
                 !.activeWorkers = @ - 1,
                 !.pcM = "recv"]

\* an int of a receive buffer: what the message wrote, or any value
IntOf(data, i, any) == IF i <= Len(data) THEN data[i] ELSE any

\* lines 314-329 (then 349-366 when no marks are awaited): the master's
\* receive of four ints with TAG_RESULT from any source completes with the
\* oldest message of worker w, which was sent as a header or as marks
MWRecvResult(w) ==
    /\ mw.pcS = "on"
    /\ mw.pcM = "recv"
    /\ mw.activeWorkers > 0
    /\ w \in WorkersMW
    /\ mw.up[w] # << >>
    /\ \E any \in Indeterminate :
         LET msg == Head(mw.up[w])
             workerBestLen == IntOf(msg.data, 1, any)
             numMarks == IntOf(msg.data, 2, any)
             m == [mw EXCEPT !.up[w] = Tail(@),
                             !.source = w,
                             !.recvBuf = <<workerBestLen, numMarks>>,
                             !.marksAsHeader = @ \/ msg.sent = "marks"]
         IN  IF workerBestLen < mw.bestLen /\ numMarks > 0
             THEN MWStep([m EXCEPT !.pcM = "marks"])
             ELSE MWStep(AssignNext(m))

\* lines 330-347 (then 349-366): the receive of the marks completes with
\* the next message of `source`; the new bound goes to the other workers
MWRecvMarks ==
    /\ mw.pcS = "on"
    /\ mw.pcM = "marks"
    /\ mw.up[mw.source] # << >>
    /\ LET msg == Head(mw.up[mw.source])
           m == [mw EXCEPT
                    !.up[mw.source] = Tail(@),
                    !.headerAsMarks = @ \/ msg.sent = "header",
                    !.bestLen = mw.recvBuf[1],
                    !.bestMarks = msg.data,
                    !.down = [w \in WorkersMW |->
                        IF w # mw.source
                        THEN Append(mw.down[w],
                                 MessageMW(TAG_BEST_UPDATE, "update",
                                           <<mw.recvBuf[1]>>))
                        ELSE mw.down[w]]]
       IN  MWStep(AssignNext(m))

\* line 314: the loop ends with no active worker
MWMasterDone ==
    /\ mw.pcS = "on"
    /\ mw.pcM = "recv"
    /\ ~(mw.activeWorkers > 0)
    /\ MWStep([mw EXCEPT !.pcM = "done"])

\* lines 375-388: MPI_Iprobe for a bound update; the update is received
\* when there is one, else the worker goes on to line 393
MWProbe(w) ==
    /\ mw.pcS = "on"
    /\ w \in WorkersMW
    /\ mw.pcW[w] = "probe"
    /\ LET i == FirstOfTag(mw.down[w], TAG_BEST_UPDATE)
       IN  IF i # 0
           THEN MWStep([mw EXCEPT
                    !.down[w] = Without(@, i),
                    !.globalBestLen[w] = Min2(mw.down[w][i].data[1], @)])
           ELSE MWStep([mw EXCEPT !.pcW[w] = "recv"])

\* lines 390-433: the receive with MPI_ANY_TAG completes with the oldest
\* message from rank 0; unless its tag is TAG_TERMINATE its ints are taken
\* as a branch and the master's bound, the branch is searched and the
\* result sent, with the marks after it when it beats that bound
MWRecvWork(w) ==
    /\ mw.pcS = "on"
    /\ w \in WorkersMW
    /\ mw.pcW[w] = "recv"
    /\ mw.down[w] # << >>
    /\ \E any \in Indeterminate :
         LET msg == Head(mw.down[w])
             branch == IntOf(msg.data, 1, any)
             masterBest == IntOf(msg.data, 2, any)
             bound == Min2(masterBest, mw.globalBestLen[w])
             found == BranchResult(branch, n, bound)
             result == IF branch < bound THEN found
                       ELSE [len |-> bound, marks |-> << >>, glob |-> bound]
             header == MessageMW(TAG_RESULT, "header",
                                 <<result.len, Len(result.marks)>>)
             marks == MessageMW(TAG_RESULT, "marks", result.marks)
         IN  IF msg.tag = TAG_TERMINATE
             THEN MWStep([mw EXCEPT !.down[w] = Tail(@),
                                    !.pcW[w] = "done"])
             ELSE MWStep([mw EXCEPT
                      !.down[w] = Tail(@),
                      !.updateAsWork[w] = @ \/ msg.sent = "update",
                      !.globalBestLen[w] = result.glob,
                      !.up[w] = IF Len(result.marks) > 0 /\ result.len < masterBest
                                THEN @ \o <<header, marks>>
                                ELSE Append(@, header),
                      !.pcW[w] = "probe"])

NextMW ==
    \/ MWStart
    \/ \E w \in Procs : MWRecvResult(w)
    \/ MWRecvMarks
    \/ MWMasterDone
    \/ \E w \in Procs : MWProbe(w)
    \/ \E w \in Procs : MWRecvWork(w)

SpecMW == InitMW /\ [][NextMW]_vars

(***************************************************************************)
(* SpecShift: the two left shifts of a 128-bit bitmap, the branching one   *)
(* (BitSet128_V3::operator<<, src/src/search_mpi_v3.cpp lines 55-64, the   *)
(* same text in every other variant) and the branchless one                *)
(* (BitSet128B::operator<<, src/unnamed/part_014 lines 65-99), each        *)
(* applied once to a bitmap a and a distance k.                            *)
(***************************************************************************)
\* the distances include 0, 63, 64, 65, 127, 128 and some beyond
MaxShift == 130

\* bits at the ends of both lanes and next to them
ShiftPositions == {0, 1, 62, 63, 64, 65, 127}

\* the bitmap whose one bits are at `positions`
BitmapOf(positions) ==
    BitSet128_V3({i \in positions : i < 64},
                 {i - 64 : i \in {j \in positions : j >= 64}})

InitShift ==
    /\ n = 2
    /\ maxLenArg = MAX_LEN_V3
    /\ size = 1
    /\ numThreads = 1
    /\ syncInterval = SYNC_INTERVAL_V3
    /\ boundSync = TRUE
    /\ InitProcs
    /\ \E positions \in SUBSET ShiftPositions, k \in 0..MaxShift :
           sh = [pcS |-> "on", a |-> BitmapOf(positions), k |-> k,
                 called |-> {}, branching |-> EmptyBits,
                 branchless |-> EmptyBits]
    /\ mw = Off
    /\ v4 = Off
    /\ dep = Off
    /\ seq = Off
    /\ cube = Off
    /\ omp = Off
    /\ mpi = Off
    /\ gen = Off
    /\ req = Off
    /\ chk = Off
    /\ explored = Off
    /\ held = Off

ShiftStep(new) ==
    /\ sh.pcS = "on"
    /\ sh' = new
    /\ UNCHANGED <<inputs, procVars, thr, handled, generated, explored, held, seq, cube, omp, mpi, gen, req, chk, dep, v4, mw>>

\* a << k with BitSet128_V3::operator<<
CallBranching ==
    /\ sh.pcS = "on"
    /\ "branching" \notin sh.called
    /\ ShiftStep([sh EXCEPT !.branching = ShiftLeft(sh.a, sh.k),
                            !.called = @ \cup {"branching"}])

\* a << k with BitSet128B::operator<<
CallBranchless ==
    /\ sh.pcS = "on"
    /\ "branchless" \notin sh.called
    /\ ShiftStep([sh EXCEPT !.branchless = ShiftLeftB(sh.a, sh.k),
                            !.called = @ \cup {"branchless"}])

NextShift == CallBranching \/ CallBranchless

SpecShift == InitShift /\ [][NextShift]_vars

(***************************************************************************)
(* C21                                                                     *)
(***************************************************************************)

\* C21: when a process returns from the search its explored-state counter
\* equals the number of frame visits its workers performed during this call,
\* whatever an earlier call left in the counter.
C21_CounterCountsThisCall ==
    \A p \in Procs :
        pc[p] = "done" => explored.exploredCount[p] = explored.visits[p]

\* a process returns having visited frames, after an earlier call that
\* left a count behind
C21_Witness ==
    \E p \in Procs :
        /\ pc[p] = "done"
        /\ explored.visits[p] > 1
        /\ explored.threadExplored[p][0] > 0
        /\ explored.earlier > explored.visits[p]
        /\ numThreads > 1

(***************************************************************************)
(* C22                                                                     *)
(***************************************************************************)

\* the marks of a PrefixJob or frame, as a set
MarksOf(f) ==
    {m \in 0..f.ruler_length : BitTest(f.reversed_marks, f.ruler_length - m)}

\* the Golomb rulers of n marks that extend the frame: its marks followed by
\* marks beyond its length
Extensions(f) ==
    {M \in Rulers(n, maxLen) :
        /\ MarksOf(f) \subseteq M
        /\ \A m \in M \ MarksOf(f) : m > f.ruler_length}

\* the iterations of process p that have been handed out and are finished
Finished(p) ==
    {k \in 1..Len(handled[p]) :
        \A t \in Threads :
            Busy(thr[p][t]) =>
                myPrefixes[p][thr[p][t].idx + 1] # handled[p][k].prefix}

\* C22: once the kernel has returned for an initial frame F, every Golomb
\* ruler of n marks that extends F has a length >= the bound the process
\* holds: no pruning rule has discarded an extension strictly shorter than
\* the bound.
C22_NoShorterExtensionDiscarded ==
    \A p \in Procs : \A k \in Finished(p) :
        \A M \in Extensions(handled[p][k].prefix) :
            SetMax(M) >= globalBestLen[p]

(***************************************************************************)
(* C23                                                                     *)
(***************************************************************************)

\* the first D marks of a ruler
FirstMarks(M, D) == {m \in M : Cardinality({x \in M : x < m}) < D}

\* C23: the prefix list a process has generated (the list is not written
\* again after line 341, so it is looked at when the process reaches its
\* first round) holds, exactly once, the first D marks of every Golomb ruler
\* of order n and length <= L_max, and holds no PrefixJob twice.
C23_PrefixListComplete ==
    \A p \in Procs :
        (pc[p] = "loop" /\ round[p] = 0) =>
            LET all == generated[p]
                D == computePrefixDepthMPI_V3(n, size, numThreads)
            IN  /\ \A M \in Rulers(n, maxLenArg) :
                       Cardinality({i \in 1..Len(all) :
                           MarksOf(all[i]) = FirstMarks(M, D)}) = 1
                /\ \A i, j \in 1..Len(all) : i # j => all[i] # all[j]

\* order 4 within length 6: the rulers {0,1,4,6} and {0,2,5,6} exist, and of
\* the three prefixes generated {0,3} has no completion
C23_Witness ==
    /\ n = 4
    /\ maxLenArg = 6
    /\ pc[0] = "loop"
    /\ round[0] = 0
    /\ Len(generated[0]) = 3
    /\ Cardinality(Rulers(n, maxLenArg)) = 2

(***************************************************************************)
(* C24                                                                     *)
(***************************************************************************)

\* C24: the k-th collective call of every process is the same operation.
\* A collective completes only when every process is inside its call, so
\* whenever all processes are inside a call they are in their k-th call for
\* the same k: these calls are of one kind, and in particular the job-count
\* all-reduce-max of one process never meets the bound all-reduce-min of
\* another.
C24_SameCollectiveSequence ==
    AllCalling => Cardinality(Kinds) = 1

(***************************************************************************)
(* C25                                                                     *)
(***************************************************************************)

\* C25: for every order n in [2, 24] and every worker count the prefix depth
\* chosen is smaller than n, and every PrefixJob generated has fewer than n
\* marks.
C25_PrefixShorterThanRuler ==
    \A p \in Procs :
        gen.pcG[p] = "generated" =>
            /\ gen.prefixDepth[p] < n
            /\ \A i \in 1..Len(generated[p]) : generated[p][i].marks_count < n

(***************************************************************************)
(* C26                                                                     *)
(***************************************************************************)

\* every process has passed the barrier of line 458 and none has issued the
\* reduction of line 461
FinalReductionStarts ==
    \A p \in Procs : pc[p] = "reduceLen" /\ ~Blocked(p)

\* C26: at the start of the final reduction, if the bound of some process is
\* <= L_max then the minimum of the local best lengths equals the minimum of
\* the bounds, and a process holding that length holds a ruler of n marks of
\* that length.
C26_BoundHasSolution ==
    (FinalReductionStarts /\ \E p \in Procs : globalBestLen[p] <= maxLen)
        => /\ MinLocalBestLen = SetMin({globalBestLen[p] : p \in Procs})
           /\ \E p \in Procs :
                  /\ localBestLen[p] = MinLocalBestLen
                  /\ Len(localBestMarks[p]) = n
                  /\ localBestMarks[p][n] = MinLocalBestLen

(***************************************************************************)
(* C27                                                                     *)
(***************************************************************************)

\* the thread's best slot holds length v and the marks of a valid ruler of
\* n marks and length v
SlotHolds(th, v) ==
    /\ th.bestLen = v
    /\ verifyRulerStructure(GolombRuler(th.bestMarks), n)
    /\ verifyUniqueDifferences(th.bestMarks)
    /\ th.bestMarks[Len(th.bestMarks)] = v

\* C27: in every step in which the compare-exchange of a worker lowers the
\* bound of its process to v, the best slot of that worker holds, before the
\* step, the length v and the complete marks of a valid ruler of length v.
C27_SlotWrittenBeforeCas ==
    [][\A p \in Procs :
          (pc[p] = "parallel" /\ globalBestLen'[p] < globalBestLen[p])
              => \E t \in Threads :
                     /\ thr[p][t].pcT = "cas"
                     /\ thr'[p][t] # thr[p][t]
                     /\ SlotHolds(thr[p][t], globalBestLen'[p])]_vars

\* one of two threads has lowered the bound to the length in its slot while
\* the other is still searching
C27_Witness ==
    \E p \in Procs :
        /\ pc[p] = "parallel"
        /\ numThreads = 2
        /\ globalBestLen[p] <= maxLen
        /\ SlotHolds(thr[p][0], globalBestLen[p])
        /\ thr[p][1].pcT \in {"visit", "cand"}
        /\ thr[p][1].bestMarks = << >>

(***************************************************************************)
(* C28                                                                     *)
(***************************************************************************)

\* C28: when the workers prune with any value the bound held earlier in the
\* run instead of its current value, every process returns the length it
\* returns with current reads.
C28_StaleBoundSameLength ==
    \A p \in Procs :
        pc[p] = "done" => best[p].length = ExpectedLength(n, maxLenArg)

\* a process has returned a ruler after one of its workers pruned with a
\* value of the bound that was no longer current
C28_Witness ==
    \E p \in Procs :
        /\ pc[p] = "done"
        /\ held.stale[p]
        /\ Cardinality(held.values[p]) > 1
        /\ best[p].length > 0

(***************************************************************************)
(* C29: the traversal terminates                                           *)
(***************************************************************************)

\* worker t of process p is inside backtrackIterativeMPI_V3
InKernel(p, t) ==
    /\ p \in DOMAIN thr
    /\ t \in DOMAIN thr[p]
    /\ thr[p][t].pcT \in {"visit", "cand", "casload", "cas"}

\* worker t of process p is outside the kernel and its stack is empty
KernelLeft(p, t) ==
    /\ ~InKernel(p, t)
    /\ (p \in DOMAIN thr /\ t \in DOMAIN thr[p]) => thr[p][t].stack = << >>

\* the first candidate the for loop of lines 212-218 tries for frame f
StartNext(f) ==
    IF f.next_candidate = 0 THEN f.ruler_length + 1 ELSE f.next_candidate

\* a step of the kernel that pushes a frame moves the parent's resume point
\* strictly forward and gives the child more marks than the parent; no
\* other step of the kernel touches a frame that stays on the stack
KernelStep(p, t) ==
    LET old == thr[p][t].stack
        new == thr'[p][t].stack
    IN  (InKernel(p, t) /\ old # new) =>
            \/ /\ Len(new) = Len(old) + 1
               /\ SubSeq(new, 1, Len(old) - 1) = SubSeq(old, 1, Len(old) - 1)
               /\ StartNext(new[Len(old)]) > StartNext(old[Len(old)])
               /\ new[Len(old)].next_candidate > old[Len(old)].next_candidate
               /\ [new[Len(old)] EXCEPT !.next_candidate = 0]
                      = [old[Len(old)] EXCEPT !.next_candidate = 0]
               /\ new[Len(new)].marks_count > old[Len(old)].marks_count
               /\ new[Len(new)].next_candidate = 0
            \/ new = SubSeq(old, 1, Len(old) - 1)

\* C29: for every initial frame, every n and any concurrent changes of the
\* bound, the traversal ends after finitely many steps with an empty stack:
\* from some point on every worker is outside the kernel with nothing on
\* its stack (no traversal runs for ever); between successive visits of a frame its next_candidate strictly
\* increases and every push strictly increases marks_count.
C29_TraversalTerminates ==
    /\ [][\A p \in Procs : \A t \in Threads : KernelStep(p, t)]_vars
    /\ <>[](\A p \in DOMAIN thr : \A t \in DOMAIN thr[p] : KernelLeft(p, t))

\* a worker is back at a frame whose child has returned, and the frame is
\* the one the traversal started from
C29_Witness ==
    \E p \in Procs : \E t \in Threads :
        /\ thr[p][t].pcT = "visit"
        /\ Len(thr[p][t].stack) = 1
        /\ thr[p][t].stack[1].next_candidate > 0

(***************************************************************************)
(* C30: the bitmaps encode the marks                                       *)
(***************************************************************************)

\* the positions of the one bits of a bitmap
Bits(b) == b.lo \cup {i + 64 : i \in b.hi}

\* the differences between two marks of M
Differences(M) == {a - b : <<a, b>> \in {pr \in M \X M : pr[1] > pr[2]}}

\* the bitmaps of f encode the set M of marks
Encodes(f, M) ==
    /\ Cardinality(M) = f.marks_count
    /\ Bits(f.reversed_marks) = {f.ruler_length - m : m \in M}
    /\ Bits(f.used_dist) = Differences(M)
    /\ Cardinality(Bits(f.used_dist)) = (f.marks_count * (f.marks_count - 1)) \div 2

\* the marks placed on the way to position k of a stack: the marks of the
\* prefix the traversal started from, and the lengths of the frames pushed
\* since
Placed(stack, k) == MarksOf(stack[1]) \cup {stack[j].ruler_length : j \in 2..k}

\* the marks a prefix of D marks and length len can have: 0, len and D - 2
\* marks between them
WellFormed(job) ==
    /\ {0, job.ruler_length} \subseteq MarksOf(job)
    /\ Encodes(job, MarksOf(job))

\* C30: in every frame on any worker stack and in every PrefixJob, bit d of
\* used_dist is set iff d is a difference between two placed marks, and bit
\* (length - m) of reversed_marks is set iff m is a placed mark, so bit 0 is
\* always set; no difference bit is cleared (a frame of k marks has
\* k(k-1)/2 of them) and no bit is lost past position 127.
C30_BitmapsEncodeMarks ==
    \A p \in Procs :
        /\ \A k \in 1..Len(generated[p]) : WellFormed(generated[p][k])
        /\ \A k \in 1..Len(myPrefixes[p]) : WellFormed(myPrefixes[p][k])
        /\ \A t \in Threads :
               LET stack == thr[p][t].stack
               IN  \A k \in 1..Len(stack) :
                       /\ BitTest(stack[k].reversed_marks, 0)
                       /\ WellFormed(stack[k])
                       /\ Encodes(stack[k], Placed(stack, k))

\* a worker has pushed a frame on a prefix, and a PrefixJob of the process
\* has a mark in the high lane
C30_Witness ==
    \E p \in Procs : \E t \in Threads :
        /\ Len(thr[p][t].stack) = 2
        /\ \E k \in 1..Len(myPrefixes[p]) : myPrefixes[p][k].ruler_length > 64

(***************************************************************************)
(* C31: the frames of a stack                                              *)
(***************************************************************************)

\* C31: every frame on a worker's stack has 1 <= marks_count <= n, and a
\* worker's stack never holds more than n frames, for every order of the
\* search and every prefix handed to the kernel.
C31_StackWithinOrder ==
    \A p \in Procs : \A t \in Threads :
        LET stack == thr[p][t].stack
        IN  /\ Len(stack) <= n
            /\ \A k \in 1..Len(stack) :
                   /\ 1 <= stack[k].marks_count
                   /\ stack[k].marks_count <= n

(***************************************************************************)
(* C32: the best rulers are only replaced by shorter ones                  *)
(***************************************************************************)

\* marks is a complete ruler of the search with the given length
CompleteRuler(marks, len) ==
    /\ Len(marks) = n
    /\ \A i \in 1..(Len(marks) - 1) : marks[i] < marks[i + 1]
    /\ marks[1] = 0
    /\ marks[Len(marks)] = len
    /\ IsGolombSet({marks[i] : i \in 1..Len(marks)})

\* a step that changes the slot of a living worker
SlotOverwritten(p, t) ==
    /\ pc[p] = "parallel"
    /\ pc'[p] = "parallel"
    /\ <<thr[p][t].bestLen, thr[p][t].bestMarks>>
           # <<thr'[p][t].bestLen, thr'[p][t].bestMarks>>

\* a step that changes the best ruler of a process after its initialisation
LocalBestOverwritten(p) ==
    /\ pc[p] # "entry"
    /\ <<localBestLen[p], localBestMarks[p]>>
           # <<localBestLen'[p], localBestMarks'[p]>>

\* C32: a worker's best slot and the process-level best are overwritten
\* only by a strictly shorter complete ruler: their lengths strictly
\* decrease over a run, and among equal-length solutions the first one
\* recorded is kept.
C32_OnlyShorterOverwrites ==
    [][\A p \in Procs :
          /\ \A t \in Threads :
                 SlotOverwritten(p, t) =>
                     /\ thr'[p][t].bestLen < thr[p][t].bestLen
                     /\ CompleteRuler(thr'[p][t].bestMarks, thr'[p][t].bestLen)
          /\ LocalBestOverwritten(p) =>
                 /\ localBestLen'[p] < localBestLen[p]
                 /\ CompleteRuler(localBestMarks'[p], localBestLen'[p])]_vars

\* a worker has left the merge with a ruler as long as the one the process
\* keeps, and the process has kept the one recorded first
C32_Witness ==
    \E p \in Procs : \E t \in Threads :
        /\ thr[p][t].pcT = "joined"
        /\ thr[p][t].bestLen = localBestLen[p]
        /\ thr[p][t].bestMarks # << >>
        /\ thr[p][t].bestMarks # localBestMarks[p]

(***************************************************************************)
(* C33: the tiers of the prefix depth                                      *)
(***************************************************************************)

\* C33: the prefix depth follows the stated tier: D = 2 for n <= 6, D = 3
\* for 7 <= n <= 10, D = 4 for 11 <= n <= 12, D = 5 for 13 <= n <= 16, and
\* D = 6 for larger n when W > 64.
C33_DepthFollowsTier ==
    dep.pcD = "returned" =>
        /\ n <= 6 => dep.depth = 2
        /\ (7 <= n /\ n <= 10) => dep.depth = 3
        /\ (11 <= n /\ n <= 12) => dep.depth = 4
        /\ (13 <= n /\ n <= 16) => dep.depth = 5
        /\ (n > 16 /\ DepthWorkers > 64) => dep.depth = 6

(***************************************************************************)
(* C34: mirror symmetry breaking keeps the length                          *)
(***************************************************************************)

\* the length a search over every ruler of n marks within the clamped bound
\* returns: that of the shortest one, 0 when there is none
LengthWithoutSymmetry ==
    IF Rulers(n, maxLen) # {} THEN ShortestLen(n, maxLen) ELSE 0

\* C34: for every n >= 3 and every L_max, the sequential variants with mirror
\* symmetry breaking (V2: first mark restricted to a1 <= bestLen/2; V4:
\* additionally skipping the leaves whose first mark is >= the last gap)
\* return the same length as the search without symmetry breaking.
C34_MirrorBreakingSameLength ==
    (seq.pcS = "done" /\ n >= 3) => seq.best.length = LengthWithoutSymmetry

\* a search has returned a ruler after leaving out first marks that were
\* below the bound and above its half
C34_Witness ==
    /\ seq.pcS = "done"
    /\ n >= 3
    /\ seq.best.length > 0
    /\ seq.firstMark < seq.bestLen
    /\ seq.firstMark > seq.bestLen \div 2
    /\ Len(seq.stack) = 0


(***************************************************************************)
(* C35: seeding the bound with the greedy ruler                            *)
(***************************************************************************)
\* the ruler the search of lines 573-669 returns when it starts from
\* maxLen + 1 and holds no greedy ruler
PlainSearchV4 ==
    LET tb == SingleSearch(InitialPrefix, n, computePrefixDepthMPI_V4(n, size),
                  ThreadBestMPI_V4(maxLenV4 + 1, maxLenV4 + 1, << >>))
    IN  GolombRuler(tb.bestMarks)

\* C35: in the MPI V4 variant the length a rank returns is the length the
\* same search returns when it starts from L_max + 1 without the greedy
\* ruler.
C35_GreedySeedKeepsLength ==
    v4.pcS = "on" =>
        \A r \in Procs :
            v4.pcR[r] = "returned" => v4.best[r].length = PlainSearchV4.length


(***************************************************************************)
(* C38: requests and termination of the dynamic master-worker variant      *)
(***************************************************************************)
WorkersV4 == Procs \ {0}

\* the no-more-work messages sent to worker w and not yet received
FinishesInFlight(w) ==
    Cardinality({i \in 1..Len(v4.down[w]) :
                    v4.down[w][i].tag = TAG_NO_MORE_WORK})

\* the master has left masterDynamicDistribution
MasterReturned == v4.pcR[0] \in {"barrier", "returned"}

\* no worker is told twice to finish, and the master has left its loop only
\* with every worker told once
FinishOnce ==
    /\ \A w \in WorkersV4 : v4.finishes[w] + FinishesInFlight(w) <= 1
    /\ MasterReturned =>
           \A w \in WorkersV4 : v4.finishes[w] + FinishesInFlight(w) = 1

\* a worker that has received the no-more-work message sends no request
NoRequestAfterFinish ==
    \A w \in WorkersV4 :
        v4.finishes[w] = 1 => v4'.requests[w] = v4.requests[w]

\* every request is answered, every worker has been told to finish, every
\* rank has returned and no message is left
AllSettled ==
    /\ \A r \in Procs : v4.pcR[r] = "returned"
    /\ \A w \in WorkersV4 :
           /\ v4.answers[w] = v4.requests[w]
           /\ v4.finishes[w] = 1
           /\ v4.up[w] = << >>
           /\ v4.down[w] = << >>

\* a worker has at most one request without an answer: it sends the next
\* one only after the answer to the last
OneRequestAtATime ==
    \A w \in WorkersV4 :
        /\ v4.answers[w] <= v4.requests[w]
        /\ v4.requests[w] <= v4.answers[w] + 1

\* C38: in the MPI V4 variant on two or more processes every request of a
\* worker is eventually answered, a worker receives the no-more-work
\* message exactly once and requests nothing after it, the master returns
\* only when all P - 1 workers were told to finish, and no message stays
\* unreceived.  A worker has one request open at most, so that the counts
\* of requests and answers are equal in the end says that each request
\* was answered.
C38_DynamicTerminates ==
    /\ [](v4.pcS = "on" => FinishOnce /\ OneRequestAtATime)
    /\ [][v4.pcS = "on" => NoRequestAfterFinish]_vars
    /\ <>[](v4.pcS = "on" => AllSettled)

\* two workers have returned, one of them after searching a prefix, and
\* nothing is left in flight
C38_Witness ==
    /\ v4.pcS = "on"
    /\ size >= 3
    /\ AllSettled
    /\ \E w \in WorkersV4 : v4.requests[w] >= 2 /\ v4.localBest[w].marks # << >>


(***************************************************************************)
(* C36: what completes a worker's receive for its next assignment          *)
(***************************************************************************)
\* C36: in the branch-queue master-worker variant no bound-update message
\* is ever taken by a worker's blocking receive as a work assignment.
C36_UpdateNeverTakenAsWork ==
    mw.pcS = "on" => \A w \in WorkersMW : ~mw.updateAsWork[w]

(***************************************************************************)
(* C37: the master's receive for a worker's marks                          *)
(***************************************************************************)
\* the master is in the receive of line 332 and `source` has sent no marks
\* for it
WaitsForUnsentMarks ==
    /\ mw.pcM = "marks"
    /\ \/ mw.up[mw.source] = << >>
       \/ Head(mw.up[mw.source]).sent # "marks"

\* a marks message is left when the master's loop has ended
MarksLeft ==
    /\ mw.pcM = "done"
    /\ \E w \in WorkersMW :
           \E i \in 1..Len(mw.up[w]) : mw.up[w][i].sent = "marks"

\* C37: in the branch-queue master-worker variant every marks message is
\* received by the master as marks, none as the header of a result and no
\* header as marks, and the master never waits for marks that were not
\* sent.
C37_MarksReceivedAsMarks ==
    mw.pcS = "on" =>
        /\ ~mw.marksAsHeader
        /\ ~mw.headerAsMarks
        /\ ~WaitsForUnsentMarks
        /\ ~MarksLeft


(***************************************************************************)
(* C39: the left shifts are the logical left shift                         *)
(***************************************************************************)
\* r is a shifted left by k: bit i of r is set exactly when k <= i and bit
\* i - k of a is set, which leaves no bit when k >= 128; and r has no bit
\* outside its two lanes
LogicalShift(r, a, k) ==
    /\ r.lo \subseteq Lane
    /\ r.hi \subseteq Lane
    /\ \A i \in 0..127 :
           BitTest(r, i) <=> (i >= k /\ BitTest(a, i - k))

\* C39: each left shift of a 128-bit bitmap, the branching one and the
\* branchless one, returns the logical left shift of its operand for every
\* distance k >= 0: nothing for k >= 128.
C39_ShiftIsLogical ==
    sh.pcS = "on" =>
        /\ "branching" \in sh.called => LogicalShift(sh.branching, sh.a, sh.k)
        /\ "branchless" \in sh.called => LogicalShift(sh.branchless, sh.a, sh.k)

\* both shifts have moved bit 63 into the high lane and dropped bit 127
C39_Witness ==
    /\ sh.pcS = "on"
    /\ sh.called = {"branching", "branchless"}
    /\ sh.k \in 1..63
    /\ BitTest(sh.a, 63)
    /\ BitTest(sh.a, 127)
    /\ BitTest(sh.branchless, 63 + sh.k)
    /\ BitTest(sh.branching, 63 + sh.k)

====
